---- MODULE Spec2Model ----
(***************************************************************************)
(* Model of the Beecok frontend: the search request composer of the        *)
(* authenticated application (AuthenticatedApp), the same composer in the  *)
(* unauthenticated application (Frontend/src/App.jsx), and the             *)
(* AuthProvider with its retrying apiCall.                                 *)
(*                                                                         *)
(* Strings are sequences of one-character strings.  JavaScript indices     *)
(* are 0-based and are kept 0-based in the operators that model String     *)
(* methods.                                                                *)
(***************************************************************************)
EXTENDS Integers, Sequences, FiniteSets, TLC

VARIABLES
    \* ---- AuthenticatedApp / SemanticSearchApp state (useState hooks)
    searchQuery,            \* the input buffer
    searchResults,          \* null or the last response body stored
    spaces,                 \* list of spaces fetched from the backend
    isSearching,
    notifications,          \* list of {id, type, message}
    showSpaceSelector,
    spaceSearchQuery,
    highlightedSpaceIndex,
    selectedSpaceInQuery,   \* null or a space object
    \* ---- the network as seen from the search UI
    pending,                \* handleSearch calls suspended at their await
    searchSeq,              \* number of search requests issued so far
    spacesPending,          \* fetchSpaces calls suspended at their await
    sent,                   \* the fetch calls made by the last handler run
    received,               \* the response the last step handled, if it handled one
    \* ---- AuthProvider state
    user,
    token,
    loading,
    localStorage,           \* value under the key 'token'
    calls,                  \* apiCall invocations in progress
    returned,               \* what apiCall handed to its caller in the last step
    authResult,             \* what login or register resolved to in the last step
    now,                    \* Date.now(), in milliseconds
    \* ---- further state of the search tab
    selectedSpaces,         \* list of space ids set by the Focus action
    expandedSources,        \* EnhancedSearchResults: ids of the sources shown in full
    \* ---- AuthForm state
    formData,               \* {username, email, password, confirmPassword}
    isLogin,
    formError,              \* the `error` message of the form
    formLoading,            \* the `loading` flag of the form
    unmountedCalls,         \* ids of the login and register calls whose form is gone
    \* ---- further state of the spaces tab
    deletes,                \* handleDeleteSpace calls suspended at their await
    statsPending,           \* fetchStats calls suspended at their await
    stats,
    dialog,                 \* what confirm() returned in the last handler run, if it was asked
    \* ---- the space modal
    spaceModal,             \* {isOpen, mode, space} of AuthenticatedApp
    modalForm,              \* formData of SpaceModal: {name, description}
    modalErrors,            \* errors of SpaceModal: the fields with a message
    saves,                  \* handleCreateSpace / handleUpdateSpace calls suspended at their await
    \* ---- timers of the notifications
    timers,                 \* the setTimeout callbacks of addNotification not yet run
    subMs                   \* the time since the clock last advanced to `now`, in ticks

vars == <<searchQuery, searchResults, spaces, isSearching, notifications,
          showSpaceSelector, spaceSearchQuery, highlightedSpaceIndex,
          selectedSpaceInQuery, pending, searchSeq, spacesPending, sent,
          received, user, token, loading, localStorage, calls, returned, authResult, now,
          selectedSpaces, expandedSources, formData, isLogin, formError,
          formLoading, unmountedCalls, deletes, statsPending, stats, dialog,
          spaceModal, modalForm, modalErrors, saves, timers, subMs>>

inputVars == <<searchQuery, showSpaceSelector, spaceSearchQuery,
               highlightedSpaceIndex, selectedSpaceInQuery>>
netVars   == <<pending, searchSeq, spacesPending>>
authVars  == <<user, token, loading, localStorage, calls, returned, authResult>>
panelVars == <<selectedSpaces, expandedSources>>
formVars  == <<formData, isLogin, formError, formLoading, unmountedCalls>>
timeVars  == <<timers, subMs>>
modalVars == <<spaceModal, modalForm, modalErrors, saves>>
spaceTabVars == <<deletes, statsPending, stats, modalVars>>

(***************************************************************************)
(* Bounds of the model.                                                    *)
(***************************************************************************)
MaxLen == 3          \* longest buffer a single input event delivers
MaxSearches == 2     \* search requests issued in one behaviour

\* the characters an input event delivers: the trigger, whitespace and a letter
\* (upper case, so that both sides of the case-insensitive match matter)
Chars == {"@", " ", "M"}

RECURSIVE SeqsUpTo(_)
SeqsUpTo(n) ==
    IF n = 0 THEN {<<>>}
    ELSE LET shorter == SeqsUpTo(n - 1)
         IN  shorter \cup {Append(s, c) : s \in {t \in shorter : Len(t) = n - 1}, c \in Chars}

\* the values an input event can deliver
Buffers == SeqsUpTo(MaxLen)
\* the values typed in the behaviours that also follow the network: blank,
\* padded, plain, and `@` with and without text behind it
Queries == { <<>>, <<" ">>, <<"M">>, <<" ", "M">>, <<"@">>, <<"@", "M">> }

(***************************************************************************)
(* JavaScript String methods.                                              *)
(***************************************************************************)
IsWhitespace(c) == c = " "

\* String.prototype.toLowerCase, on the alphabet of the model
LowerChar(c) == IF c = "M" THEN "m" ELSE c
ToLowerCase(s) == [i \in 1..Len(s) |-> LowerChar(s[i])]

\* String.prototype.trim
RECURSIVE TrimStart(_)
TrimStart(s) ==
    IF s /= <<>> /\ IsWhitespace(Head(s)) THEN TrimStart(Tail(s)) ELSE s

RECURSIVE TrimEnd(_)
TrimEnd(s) ==
    IF s /= <<>> /\ IsWhitespace(s[Len(s)]) THEN TrimEnd(SubSeq(s, 1, Len(s) - 1)) ELSE s

Trim(s) == TrimEnd(TrimStart(s))

\* p occurs in s at 0-based position i
OccursAt(s, p, i) ==
    /\ i >= 0
    /\ i + Len(p) <= Len(s)
    /\ SubSeq(s, i + 1, i + Len(p)) = p

\* String.prototype.indexOf(p): first 0-based position, -1 if none
IndexOf(s, p) ==
    LET hits == {i \in 0..Len(s) : OccursAt(s, p, i)}
    IN  IF hits = {} THEN -1 ELSE CHOOSE i \in hits : \A j \in hits : i <= j

\* String.prototype.lastIndexOf(p): last 0-based position, -1 if none
LastIndexOf(s, p) ==
    LET hits == {i \in 0..Len(s) : OccursAt(s, p, i)}
    IN  IF hits = {} THEN -1 ELSE CHOOSE i \in hits : \A j \in hits : i >= j

\* String.prototype.includes(p)
Includes(s, p) == IndexOf(s, p) /= -1

\* String.prototype.substring(a, b): negative arguments are clamped to 0,
\* arguments beyond the length to the length, and swapped when a > b
Clamp(s, i) == IF i < 0 THEN 0 ELSE IF i > Len(s) THEN Len(s) ELSE i
Substring(s, a, b) ==
    LET x == Clamp(s, a)
        y == Clamp(s, b)
    IN  IF x <= y THEN SubSeq(s, x + 1, y) ELSE SubSeq(s, y + 1, x)

\* String.prototype.replace(p, ''), p a string: removes the FIRST occurrence only
ReplaceFirst(s, p) ==
    LET i == IndexOf(s, p)
    IN  IF i = -1 THEN s
        ELSE SubSeq(s, 1, i) \o SubSeq(s, i + Len(p) + 1, Len(s))

(***************************************************************************)
(* Values.                                                                 *)
(***************************************************************************)
\* JavaScript null for a space object / for a stored token / for a user
NoSpace == [id |-> 0, name |-> <<>>]
\* the formData of a freshly mounted AuthForm
EmptyForm == [username |-> <<>>, email |-> <<>>, password |-> <<>>, confirmPassword |-> <<>>]
NoToken == "null"
NoUser  == "null"
NoResults == [kind |-> "null", req |-> 0]
NoStats == "null"
NoDetail == "undefined"     \* an error body without a `detail`
\* {isOpen: false, mode: 'create', space: null}
ClosedModal == [isOpen |-> FALSE, mode |-> "create", space |-> NoSpace]
\* {name: '', description: ''}
EmptyModalForm == [name |-> <<>>, description |-> <<>>]

\* the spaces the backend holds for the user
AllSpaces == << [id |-> 1, name |-> <<"M">>],
                [id |-> 2, name |-> <<"m">>],
                [id |-> 3, name |-> <<"M", "m">>] >>

\* the lists GET /spaces can answer with
SpaceLists == {SubSeq(AllSpaces, 1, n) : n \in {0, Len(AllSpaces)}}

SpaceSet == {AllSpaces[i] : i \in 1..Len(AllSpaces)}

\* `@${space.name}`
Mention(space) == <<"@">> \o space.name

\* useState(10) for maxResults
DefaultMaxResults == 10

\* HTTP status codes the backend answers with; 0 stands for a fetch that throws
Statuses == {200, 401, 500}
NetworkError == 0

(***************************************************************************)
(* Responses.  A response is {status, parses, body}: status 0 is a fetch   *)
(* that throws, parses says whether response.json() succeeds, and the body *)
(* of the answer to search request number r is identified by r.            *)
(***************************************************************************)
IsOk(resp) == resp.status >= 200 /\ resp.status <= 299      \* Response.ok

SearchResponses(r) ==
    {[status |-> NetworkError, parses |-> FALSE,
      body |-> [kind |-> "none", req |-> r]]}
    \cup {[status |-> st, parses |-> p,
           body |-> [kind |-> IF st = 200 THEN "results" ELSE "error", req |-> r]] :
            st \in Statuses, p \in BOOLEAN}

\* the sources a result set lists, as far as the results panel reads them:
\* source.id and source.space_id
SourceLists ==
    LET a == [id |-> 1, space_id |-> 2]
        b == [id |-> 2, space_id |-> 1]
    IN  { <<a>>, <<b>>, <<a, b>> }

\* the answers to search request r with the sources of a 2xx answer spelled out
PanelResponses(r) ==
    {[status |-> 200, parses |-> TRUE,
      body |-> [kind |-> "results", req |-> r, sources |-> list]] : list \in SourceLists}
    \cup {[status |-> 500, parses |-> TRUE, body |-> [kind |-> "error", req |-> r]]}

\* a notification object {id, message, type}
Note(type, message) ==
    [id |-> now, type |-> type, message |-> message]

\* addNotification: appends the notification (its timer is set in AddNotificationCall)
AddNotification(list, type, message) ==
    Append(list, Note(type, message))

(***************************************************************************)
(* The search input.                                                       *)
(***************************************************************************)
\* a filter that compares the name and the typed text as they are
FilteredSpacesCaseSensitive ==
    SelectSeq(spaces, LAMBDA space : Includes(space.name, spaceSearchQuery))

\* spaces.filter(space => space.name.toLowerCase().includes(query.toLowerCase()))
FilteredSpaces ==
    SelectSeq(spaces, LAMBDA space :
        Includes(ToLowerCase(space.name), ToLowerCase(spaceSearchQuery)))

\* handleSearchInputChange(e), e.target.value = value; the input event fires
\* only for an edit that changes the value of the controlled input
HandleSearchInputChange(value) ==
    LET atIndex == LastIndexOf(value, <<"@">>)
    IN  /\ value /= searchQuery
        /\ searchQuery' = value
        /\ IF atIndex /= -1 /\ atIndex = Len(value) - 1
           THEN /\ showSpaceSelector' = TRUE
                /\ spaceSearchQuery' = <<>>
                /\ highlightedSpaceIndex' = 0
                /\ UNCHANGED selectedSpaceInQuery
           ELSE IF atIndex /= -1 /\ atIndex < Len(value) - 1
           THEN IF selectedSpaceInQuery = NoSpace
                THEN /\ showSpaceSelector' = TRUE
                     /\ spaceSearchQuery' = Substring(value, atIndex + 1, Len(value))
                     /\ UNCHANGED <<highlightedSpaceIndex, selectedSpaceInQuery>>
                ELSE UNCHANGED <<showSpaceSelector, spaceSearchQuery,
                                 highlightedSpaceIndex, selectedSpaceInQuery>>
           ELSE /\ showSpaceSelector' = FALSE
                /\ selectedSpaceInQuery' =
                      IF ~Includes(value, <<"@">>) THEN NoSpace ELSE selectedSpaceInQuery
                /\ UNCHANGED <<spaceSearchQuery, highlightedSpaceIndex>>
        /\ sent' = <<>>
        /\ UNCHANGED timeVars
        /\ dialog' = <<>>
        /\ UNCHANGED spaceTabVars
        /\ received' = <<>>
        /\ UNCHANGED <<searchResults, spaces, isSearching, notifications, now, panelVars, formVars>>
        /\ UNCHANGED netVars
        /\ UNCHANGED authVars

\* a handleSpaceSelect that cuts the buffer at its first `@`
SpaceSelectQueryFirstAt(space) ==
    LET atIndex  == IndexOf(searchQuery, <<"@">>)
        beforeAt == Substring(searchQuery, 0, atIndex)
    IN  beforeAt \o Mention(space) \o <<" ">>

\* the buffer written by handleSpaceSelect(space)
SpaceSelectQuery(space) ==
    LET atIndex  == LastIndexOf(searchQuery, <<"@">>)
        beforeAt == Substring(searchQuery, 0, atIndex)
    IN  beforeAt \o Mention(space) \o <<" ">>

HandleSpaceSelect(space) ==
    /\ searchQuery' = SpaceSelectQuery(space)
    /\ selectedSpaceInQuery' = space
    /\ showSpaceSelector' = FALSE
    /\ UNCHANGED <<spaceSearchQuery, highlightedSpaceIndex>>

\* a click on an entry of the SpaceSelector dropdown
ClickSuggestion(k) ==
    /\ showSpaceSelector
    /\ k \in 1..Len(FilteredSpaces)
    /\ HandleSpaceSelect(FilteredSpaces[k])
    /\ sent' = <<>>
    /\ UNCHANGED timeVars
    /\ dialog' = <<>>
    /\ UNCHANGED spaceTabVars
    /\ received' = <<>>
    /\ UNCHANGED <<searchResults, spaces, isSearching, notifications, now, panelVars, formVars>>
    /\ UNCHANGED netVars
    /\ UNCHANGED authVars

\* the scope chip's "x" button, rendered only while a scope is selected
RemoveScope ==
    /\ selectedSpaceInQuery /= NoSpace
    /\ selectedSpaceInQuery' = NoSpace
    /\ searchQuery' = Trim(ReplaceFirst(searchQuery, Mention(selectedSpaceInQuery)))
    /\ sent' = <<>>
    /\ UNCHANGED timeVars
    /\ dialog' = <<>>
    /\ UNCHANGED spaceTabVars
    /\ received' = <<>>
    /\ UNCHANGED <<showSpaceSelector, spaceSearchQuery, highlightedSpaceIndex>>
    /\ UNCHANGED <<searchResults, spaces, isSearching, notifications, now, panelVars, formVars>>
    /\ UNCHANGED netVars
    /\ UNCHANGED authVars

\* the example queries of the welcome panel: one names a space, the others do not
Examples == { <<"M", "M">>, <<"@", "M", " ", "M">> }

\* an example button, rendered only while there are no search results
ClickExample(example) ==
    /\ searchResults = NoResults
    /\ searchQuery' = example
    /\ sent' = <<>>
    /\ UNCHANGED timeVars
    /\ dialog' = <<>>
    /\ UNCHANGED spaceTabVars
    /\ received' = <<>>
    /\ UNCHANGED <<showSpaceSelector, spaceSearchQuery, highlightedSpaceIndex,
                   selectedSpaceInQuery>>
    /\ UNCHANGED <<searchResults, spaces, isSearching, notifications, now, panelVars, formVars>>
    /\ UNCHANGED netVars
    /\ UNCHANGED authVars

\* the "Search" button of a space card on the spaces tab
ClickSpaceCardSearch(k) ==
    /\ k \in 1..Len(spaces)
    /\ selectedSpaceInQuery' = spaces[k]
    /\ searchQuery' = Mention(spaces[k]) \o <<" ">>
    /\ sent' = <<>>
    /\ UNCHANGED timeVars
    /\ dialog' = <<>>
    /\ UNCHANGED spaceTabVars
    /\ received' = <<>>
    /\ UNCHANGED <<showSpaceSelector, spaceSearchQuery, highlightedSpaceIndex>>
    /\ UNCHANGED <<searchResults, spaces, isSearching, notifications, now, panelVars, formVars>>
    /\ UNCHANGED netVars
    /\ UNCHANGED authVars

(***************************************************************************)
(* Search submission.                                                      *)
(***************************************************************************)
\* the query handleSearch puts into the `q` parameter
ActualQuery ==
    IF selectedSpaceInQuery /= NoSpace
    THEN Trim(ReplaceFirst(searchQuery, Mention(selectedSpaceInQuery)))
    ELSE searchQuery

\* searchSpaces: the ids appended as `space_ids` (none when the list is empty)
SearchSpaces ==
    IF selectedSpaceInQuery /= NoSpace THEN <<selectedSpaceInQuery.id>> ELSE <<>>

\* the fetch made by handleSearch through the apiCall helper of AuthenticatedApp,
\* which attaches `Bearer ${localStorage.getItem('token')}`
SearchRequest ==
    [path |-> "/search", q |-> ActualQuery, max_results |-> DefaultMaxResults,
     space_ids |-> SearchSpaces, bearer |-> localStorage]

\* the same fetch in Frontend/src/App.jsx: fetch(url), no Authorization header
SearchRequestApp ==
    [path |-> "/search", q |-> ActualQuery, max_results |-> DefaultMaxResults,
     space_ids |-> SearchSpaces, bearer |-> "none"]

\* handleSearch up to its await, issuing the fetch `request`
StartSearch(request) ==
    IF Trim(searchQuery) = <<>>
    THEN /\ sent' = <<>>
         /\ UNCHANGED <<isSearching, pending, searchSeq>>
    ELSE /\ searchSeq < MaxSearches
         /\ isSearching' = TRUE
         /\ sent' = <<request>>
         /\ searchSeq' = searchSeq + 1
         /\ pending' = pending \cup {searchSeq + 1}

HandleSearch == StartSearch(SearchRequest)
HandleSearchApp == StartSearch(SearchRequestApp)

\* the send button, rendered only while isSearching is false and enabled only
\* while the buffer is not blank
SendButton(Search) ==
    /\ ~isSearching
    /\ Trim(searchQuery) /= <<>>
    /\ Search
    /\ UNCHANGED timeVars
    /\ dialog' = <<>>
    /\ UNCHANGED spaceTabVars
    /\ received' = <<>>
    /\ UNCHANGED inputVars
    /\ UNCHANGED <<searchResults, spaces, notifications, now, panelVars, formVars, spacesPending>>
    /\ UNCHANGED authVars

ClickSearch == SendButton(HandleSearch)
ClickSearchApp == SendButton(HandleSearchApp)

Keys == {"ArrowDown", "ArrowUp", "Enter", "Escape", "a"}

\* a handler for which Shift+Enter submits as well
SubmitsOnAnyEnter(key, shiftKey) == key = "Enter"

\* e.key === 'Enter' && !e.shiftKey
SubmitsOnEnter(key, shiftKey) == key = "Enter" /\ ~shiftKey

\* handleKeyDown(e), e.key = key, e.shiftKey = shiftKey; Search is the
\* handleSearch of the application the handler belongs to
KeyDown(key, shiftKey, Search) ==
    /\ IF showSpaceSelector
       THEN LET filteredSpaces == FilteredSpaces
            IN  /\ IF key = "ArrowDown"
                   THEN /\ highlightedSpaceIndex' =
                              IF highlightedSpaceIndex < Len(filteredSpaces) - 1
                              THEN highlightedSpaceIndex + 1 ELSE 0
                        /\ UNCHANGED <<searchQuery, showSpaceSelector, spaceSearchQuery,
                                       selectedSpaceInQuery>>
                   ELSE IF key = "ArrowUp"
                   THEN /\ highlightedSpaceIndex' =
                              IF highlightedSpaceIndex > 0
                              THEN highlightedSpaceIndex - 1 ELSE Len(filteredSpaces) - 1
                        /\ UNCHANGED <<searchQuery, showSpaceSelector, spaceSearchQuery,
                                       selectedSpaceInQuery>>
                   ELSE IF key = "Enter" /\ highlightedSpaceIndex + 1 \in 1..Len(filteredSpaces)
                   THEN HandleSpaceSelect(filteredSpaces[highlightedSpaceIndex + 1])
                   ELSE IF key = "Escape"
                   THEN /\ showSpaceSelector' = FALSE
                        /\ UNCHANGED <<searchQuery, spaceSearchQuery, highlightedSpaceIndex,
                                       selectedSpaceInQuery>>
                   ELSE UNCHANGED inputVars
                /\ sent' = <<>>
                /\ UNCHANGED <<isSearching, pending, searchSeq>>
       ELSE IF SubmitsOnEnter(key, shiftKey)
       THEN /\ Search
            /\ UNCHANGED inputVars
       ELSE /\ sent' = <<>>
            /\ UNCHANGED inputVars
            /\ UNCHANGED <<isSearching, pending, searchSeq>>
    /\ UNCHANGED timeVars
    /\ dialog' = <<>>
    /\ UNCHANGED spaceTabVars
    /\ received' = <<>>
    /\ UNCHANGED <<searchResults, spaces, notifications, now, panelVars, formVars, spacesPending>>
    /\ UNCHANGED authVars

HandleKeyDown(key, shiftKey) == KeyDown(key, shiftKey, HandleSearch)
HandleKeyDownApp(key, shiftKey) == KeyDown(key, shiftKey, HandleSearchApp)

\* a handleSearch that drops the answer to any search but the latest one
StoredLatestOnly(resp) ==
    /\ resp.status /= NetworkError /\ IsOk(resp) /\ resp.parses
    /\ resp.body.req = searchSeq

\* the try block of handleSearch in AuthenticatedApp runs to its end
\* without throwing and response.ok holds
Stored(resp) == resp.status /= NetworkError /\ IsOk(resp) /\ resp.parses

\* the try block of handleSearch in Frontend/src/App.jsx runs to its end
\* without throwing: response.ok is not looked at
StoredApp(resp) == resp.status /= NetworkError /\ resp.parses

\* what a finished search leaves in searchResults and notifications
SearchOutcome(resp, stored) ==
    /\ searchResults' = IF stored THEN resp.body ELSE searchResults
    /\ notifications' =
          IF stored
          THEN AddNotification(notifications, "success", "Search completed")
          ELSE AddNotification(notifications, "error", "Search failed")

\* handleSearch from its await on: the response resp to request r arrives
\* (AuthenticatedApp: the body is stored only when response.ok)
SearchResponse(r, resp) ==
    /\ r \in pending
    /\ resp \in SearchResponses(r) \cup PanelResponses(r)
    /\ pending' = pending \ {r}
    /\ SearchOutcome(resp, Stored(resp))
    /\ isSearching' = FALSE
    /\ sent' = <<>>
    /\ UNCHANGED timeVars
    /\ dialog' = <<>>
    /\ UNCHANGED spaceTabVars
    /\ received' = <<resp>>
    /\ UNCHANGED inputVars
    /\ UNCHANGED <<spaces, now, panelVars, formVars, searchSeq, spacesPending>>
    /\ UNCHANGED authVars

\* handleSearch of Frontend/src/App.jsx from its await on
SearchResponseApp(r, resp) ==
    /\ r \in pending
    /\ resp \in SearchResponses(r)
    /\ pending' = pending \ {r}
    /\ SearchOutcome(resp, StoredApp(resp))
    /\ isSearching' = FALSE
    /\ sent' = <<>>
    /\ UNCHANGED timeVars
    /\ dialog' = <<>>
    /\ UNCHANGED spaceTabVars
    /\ received' = <<resp>>
    /\ UNCHANGED inputVars
    /\ UNCHANGED <<spaces, now, panelVars, formVars, searchSeq, spacesPending>>
    /\ UNCHANGED authVars

\* the answers to GET /spaces
SpacesResponses ==
    {[status |-> NetworkError, parses |-> FALSE, body |-> [kind |-> "none", req |-> 0]]}
    \cup {[status |-> st, parses |-> p,
           body |-> [kind |-> IF st = 200 THEN "spaces" ELSE "error", req |-> 0]] :
            st \in Statuses, p \in BOOLEAN}

\* what a finished fetchSpaces leaves in spaces and notifications
SpacesOutcome(list, stored) ==
    IF stored
    THEN /\ spaces' = list
         /\ UNCHANGED notifications
    ELSE /\ notifications' = AddNotification(notifications, "error", "Failed to fetch spaces")
         /\ UNCHANGED spaces

\* fetchSpaces of AuthenticatedApp from its await on; list is data.spaces
FetchSpacesResponse(resp, list) ==
    /\ spacesPending > 0
    /\ resp \in SpacesResponses
    /\ list \in SpaceLists
    /\ spacesPending' = spacesPending - 1
    /\ SpacesOutcome(list, Stored(resp))
    /\ sent' = <<>>
    /\ UNCHANGED timeVars
    /\ dialog' = <<>>
    /\ UNCHANGED spaceTabVars
    /\ received' = <<resp>>
    /\ UNCHANGED inputVars
    /\ UNCHANGED <<searchResults, isSearching, now, panelVars, formVars, pending, searchSeq>>
    /\ UNCHANGED authVars

\* fetchSpaces of Frontend/src/App.jsx from its await on: response.ok is not
\* looked at, and a parsed body without `spaces` gives the empty list
FetchSpacesResponseApp(resp, list) ==
    /\ spacesPending > 0
    /\ resp \in SpacesResponses
    /\ list \in SpaceLists
    /\ spacesPending' = spacesPending - 1
    /\ SpacesOutcome(IF IsOk(resp) THEN list ELSE <<>>, StoredApp(resp))
    /\ sent' = <<>>
    /\ UNCHANGED timeVars
    /\ dialog' = <<>>
    /\ UNCHANGED spaceTabVars
    /\ received' = <<resp>>
    /\ UNCHANGED inputVars
    /\ UNCHANGED <<searchResults, isSearching, now, panelVars, formVars, pending, searchSeq>>
    /\ UNCHANGED authVars

(***************************************************************************)
(* The spaces tab: deleting a space.                                       *)
(***************************************************************************)
MaxDeletes == 2      \* confirmed deletions in one behaviour

\* the confirmed handleDeleteSpace calls so far: those suspended at their
\* await and those that have ended, each with one notification
DeleteCalls ==
    Cardinality(deletes) +
    Cardinality({i \in 1..Len(notifications) :
                   notifications[i].message \in
                       {"Space deleted successfully", "Failed to delete space"}})

\* a handler that never takes the answer of the dialog for a refusal
DeclinedNever(answer) == FALSE

\* !confirm(...): answer is what the dialog returned
Declined(answer) == ~answer

\* fetch(`${API_BASE}/spaces/${spaceId}`, {method: 'DELETE'})
DeleteRequest(space, bearer) ==
    [path |-> "/spaces/:id", spaceId |-> space.id, method |-> "DELETE", bearer |-> bearer]

\* fetch(`${API_BASE}${path}`) of fetchSpaces and fetchStats
GetRequest(path, bearer) == [path |-> path, method |-> "GET", bearer |-> bearer]

\* handleDeleteSpace(space.id, space.name) up to its await, from the delete
\* button of the k-th space card; answer is what confirm() returns
DeleteSpace(k, answer, bearer) ==
    /\ k \in 1..Len(spaces)
    /\ answer \in BOOLEAN
    /\ UNCHANGED timeVars
    /\ dialog' = <<[spaceId |-> spaces[k].id, answer |-> answer]>>
    /\ IF Declined(answer)
       THEN /\ sent' = <<>>
            /\ UNCHANGED deletes
       ELSE /\ DeleteCalls < MaxDeletes
            /\ sent' = <<DeleteRequest(spaces[k], bearer)>>
            /\ deletes' = deletes \cup {[id |-> DeleteCalls + 1, space |-> spaces[k]]}
    /\ received' = <<>>
    /\ UNCHANGED <<statsPending, stats, modalVars>>
    /\ UNCHANGED inputVars
    /\ UNCHANGED <<searchResults, spaces, isSearching, notifications, now, panelVars, formVars>>
    /\ UNCHANGED netVars
    /\ UNCHANGED authVars

HandleDeleteSpace(k, answer) == DeleteSpace(k, answer, localStorage)
HandleDeleteSpaceApp(k, answer) == DeleteSpace(k, answer, "none")

\* the answers to DELETE /spaces/:id; the body is not read
DeleteResponses ==
    {[status |-> NetworkError, parses |-> FALSE, body |-> [kind |-> "none", req |-> 0]]}
    \cup {[status |-> st, parses |-> TRUE,
           body |-> [kind |-> IF st = 200 THEN "deleted" ELSE "error", req |-> 0]] :
            st \in Statuses}

\* handleDeleteSpace from its await on, for the suspended call d: the
\* notification (its text names the space, which is left out here), and after
\* an ok answer fetchSpaces() and fetchStats() up to their awaits
DeleteAnswered(d, resp, bearer) ==
    /\ d \in deletes
    /\ resp \in DeleteResponses
    /\ deletes' = deletes \ {d}
    /\ IF resp.status /= NetworkError /\ IsOk(resp)
       THEN /\ notifications' =
                  AddNotification(notifications, "success", "Space deleted successfully")
            /\ spacesPending' = spacesPending + 1
            /\ statsPending' = statsPending + 1
            /\ sent' = <<GetRequest("/spaces", bearer), GetRequest("/stats", bearer)>>
       ELSE /\ notifications' =
                  AddNotification(notifications, "error", "Failed to delete space")
            /\ sent' = <<>>
            /\ UNCHANGED <<spacesPending, statsPending>>
    /\ UNCHANGED timeVars
    /\ dialog' = <<>>
    /\ received' = <<resp>>
    /\ UNCHANGED <<stats, modalVars>>
    /\ UNCHANGED inputVars
    /\ UNCHANGED <<searchResults, spaces, isSearching, now, panelVars, formVars, pending, searchSeq>>
    /\ UNCHANGED authVars

DeleteResponse(d, resp) == DeleteAnswered(d, resp, localStorage)
DeleteResponseApp(d, resp) == DeleteAnswered(d, resp, "none")

\* the answers to GET /stats
StatsResponses ==
    {[status |-> NetworkError, parses |-> FALSE, body |-> [kind |-> "none", req |-> 0]]}
    \cup {[status |-> st, parses |-> p,
           body |-> [kind |-> IF st = 200 THEN "stats" ELSE "error", req |-> 0]] :
            st \in Statuses, p \in BOOLEAN}

\* fetchStats from its await on; notes is what it leaves in notifications
StatsAnswered(resp, stored, notes) ==
    /\ statsPending > 0
    /\ resp \in StatsResponses
    /\ statsPending' = statsPending - 1
    /\ stats' = IF stored THEN "data" ELSE NoStats
    /\ notifications' = notes
    /\ sent' = <<>>
    /\ UNCHANGED timeVars
    /\ dialog' = <<>>
    /\ received' = <<resp>>
    /\ UNCHANGED <<deletes, modalVars>>
    /\ UNCHANGED inputVars
    /\ UNCHANGED <<searchResults, spaces, isSearching, now, panelVars, formVars>>
    /\ UNCHANGED netVars
    /\ UNCHANGED authVars

\* fetchStats of AuthenticatedApp: setStats(data) after an ok answer whose
\* body parses, setStats(null) otherwise
FetchStatsResponse(resp) == StatsAnswered(resp, Stored(resp), notifications)

\* fetchStats of Frontend/src/App.jsx: the same, and a fetch that rejects
\* (a TypeError) also adds a notification
FetchStatsResponseApp(resp) ==
    StatsAnswered(resp, Stored(resp),
                  IF resp.status = NetworkError
                  THEN AddNotification(notifications, "error", "Backend server is not responding")
                  ELSE notifications)

(***************************************************************************)
(* The space modal: creating and updating a space.                         *)
(***************************************************************************)
MaxSaves == 2        \* create and update requests in one behaviour

\* the string of n characters c
Repeat(c, n) == [i \in 1..n |-> c]

\* what is typed into the name field: nothing, a blank, a name with a blank in
\* front, and names of 100 and of 101 characters
ModalNames == { <<>>, <<" ">>, <<" ", "M">>, Repeat("M", 100), Repeat("M", 101) }

\* what is typed into the description field
ModalDescriptions == { <<>>, <<"M">> }

ModalValues(field) == IF field = "name" THEN ModalNames ELSE ModalDescriptions

\* the messages of the notifications handleCreateSpace and handleUpdateSpace add
SaveMessages ==
    {"Space created successfully", "Space updated successfully",
     "Failed to create space", "Failed to update space", "Space name already exists"}

\* the handleCreateSpace and handleUpdateSpace calls so far: those suspended
\* at their await and those that have ended, each with one notification
SaveCalls ==
    Cardinality(saves) +
    Cardinality({i \in 1..Len(notifications) : notifications[i].message \in SaveMessages})

\* the useEffect of SpaceModal on [space]: the form takes the values of a
\* space that is passed in, and is left alone when space is null (the spaces
\* of this model carry no description)
ModalFormFor(space, form) ==
    IF space /= NoSpace THEN [name |-> space.name, description |-> <<>>] ELSE form

\* the steps of the modal that make no request
ModalOnly ==
    /\ sent' = <<>>
    /\ received' = <<>>
    /\ UNCHANGED timeVars
    /\ dialog' = <<>>
    /\ UNCHANGED <<deletes, statsPending, stats, saves>>
    /\ UNCHANGED inputVars
    /\ UNCHANGED <<searchResults, spaces, isSearching, notifications, now, panelVars, formVars>>
    /\ UNCHANGED netVars
    /\ UNCHANGED authVars

\* "New Space": setSpaceModal({isOpen: true, mode: 'create', space: null})
OpenCreateModal ==
    /\ ~spaceModal.isOpen
    /\ spaceModal' = [isOpen |-> TRUE, mode |-> "create", space |-> NoSpace]
    /\ modalForm' = ModalFormFor(NoSpace, modalForm)
    /\ UNCHANGED modalErrors
    /\ ModalOnly

\* the edit button of the k-th space card:
\* setSpaceModal({isOpen: true, mode: 'edit', space})
OpenEditModal(k) ==
    /\ ~spaceModal.isOpen
    /\ k \in 1..Len(spaces)
    /\ spaceModal' = [isOpen |-> TRUE, mode |-> "edit", space |-> spaces[k]]
    /\ modalForm' = ModalFormFor(spaces[k], modalForm)
    /\ UNCHANGED modalErrors
    /\ ModalOnly

\* onClose, from the X and the Cancel button
CloseModal ==
    /\ spaceModal.isOpen
    /\ spaceModal' = ClosedModal
    /\ modalForm' = ModalFormFor(NoSpace, modalForm)
    /\ UNCHANGED modalErrors
    /\ ModalOnly

\* onChange of the name and the description field
ModalInputChange(field, value) ==
    /\ spaceModal.isOpen
    /\ value \in ModalValues(field)
    /\ value /= modalForm[field]
    /\ modalForm' = [modalForm EXCEPT ![field] = value]
    /\ UNCHANGED <<spaceModal, modalErrors>>
    /\ ModalOnly

\* the fetch of handleCreateSpace (POST /spaces) or of handleUpdateSpace
\* (PUT /spaces/${spaceModal.space.id}) with the body spaceData
SaveRequest(spaceData) ==
    [path |-> IF spaceModal.mode = "create" THEN "/spaces" ELSE "/spaces/:id",
     spaceId |-> spaceModal.space.id,
     method |-> IF spaceModal.mode = "create" THEN "POST" ELSE "PUT",
     body |-> spaceData, bearer |-> localStorage]

\* SpaceModal.handleSubmit, with onSave(formData) up to its await
ModalSubmit ==
    /\ spaceModal.isOpen
    /\ IF Trim(modalForm.name) = <<>>
       THEN /\ modalErrors' = {"name"}
            /\ sent' = <<>>
            /\ UNCHANGED <<modalForm, saves>>
       ELSE /\ SaveCalls < MaxSaves
            /\ sent' = <<SaveRequest(modalForm)>>
            /\ saves' = saves \cup {[id |-> SaveCalls + 1, mode |-> spaceModal.mode]}
            /\ modalForm' = EmptyModalForm
            /\ modalErrors' = {}
    /\ received' = <<>>
    /\ UNCHANGED timeVars
    /\ dialog' = <<>>
    /\ UNCHANGED <<deletes, statsPending, stats, spaceModal>>
    /\ UNCHANGED inputVars
    /\ UNCHANGED <<searchResults, spaces, isSearching, notifications, now, panelVars, formVars>>
    /\ UNCHANGED netVars
    /\ UNCHANGED authVars

\* the answers to POST /spaces and PUT /spaces/:id
SaveResponses ==
    {[status |-> NetworkError, parses |-> FALSE, detail |-> NoDetail,
      body |-> [kind |-> "none", req |-> 0]]}
    \cup {[status |-> 200, parses |-> TRUE, detail |-> NoDetail,
           body |-> [kind |-> "space", req |-> 0]]}
    \cup {[status |-> st, parses |-> TRUE, detail |-> d,
           body |-> [kind |-> "error", req |-> 0]] :
            st \in Statuses \ {200}, d \in {NoDetail, "Space name already exists"}}
    \cup {[status |-> st, parses |-> FALSE, detail |-> NoDetail,
           body |-> [kind |-> "error", req |-> 0]] : st \in Statuses \ {200}}

\* handleCreateSpace and handleUpdateSpace from their await on, for the
\* suspended call s (the text of the success notification of a creation names
\* the space, which is left out here)
SaveResponse(s, resp) ==
    /\ s \in saves
    /\ resp \in SaveResponses
    /\ saves' = saves \ {s}
    /\ LET done   == IF s.mode = "create" THEN "Space created successfully"
                     ELSE "Space updated successfully"
           failed == IF s.mode = "create" THEN "Failed to create space"
                     ELSE "Failed to update space"
       IN  IF resp.status /= NetworkError /\ IsOk(resp)
           THEN /\ notifications' = AddNotification(notifications, "success", done)
                /\ spacesPending' = spacesPending + 1
                /\ sent' = <<GetRequest("/spaces", localStorage)>>
                /\ spaceModal' = ClosedModal
                /\ modalForm' = ModalFormFor(NoSpace, modalForm)
           ELSE /\ notifications' =
                      AddNotification(notifications, "error",
                          IF resp.status /= NetworkError /\ resp.parses
                               /\ resp.detail \notin {NoDetail, ""}
                          THEN resp.detail ELSE failed)
                /\ sent' = <<>>
                /\ UNCHANGED <<spacesPending, spaceModal, modalForm>>
    /\ received' = <<resp>>
    /\ UNCHANGED timeVars
    /\ dialog' = <<>>
    /\ UNCHANGED <<deletes, statsPending, stats, modalErrors>>
    /\ UNCHANGED inputVars
    /\ UNCHANGED <<searchResults, spaces, isSearching, now, panelVars, formVars, pending, searchSeq>>
    /\ UNCHANGED authVars

(***************************************************************************)
(* Notifications and their timers.  Date.now() counts whole milliseconds;  *)
(* the time at which handlers and timers run is finer, TicksPerMs ticks to *)
(* the millisecond.                                                        *)
(***************************************************************************)
TicksPerMs == 2      \* instants told apart within one millisecond
MaxAddMs == 2        \* notifications are added during the first MaxAddMs ms
MaxTimers == 3       \* timers pending at once

\* setTimeout(..., 5000)
NotificationDelay == 5000

\* the time in ticks
Clock == now * TicksPerMs + subMs

\* the calls addNotification(message, type) of the handlers
NotifyCalls == { [type |-> "success", message |-> "Search completed"],
                 [type |-> "error", message |-> "Search failed"] }

\* the steps of the notifications touch nothing else
NotifyOnly ==
    /\ sent' = <<>>
    /\ received' = <<>>
    /\ dialog' = <<>>
    /\ UNCHANGED spaceTabVars
    /\ UNCHANGED inputVars
    /\ UNCHANGED <<searchResults, spaces, isSearching, panelVars, formVars>>
    /\ UNCHANGED netVars
    /\ UNCHANGED authVars

\* addNotification(message, type): the notification gets the id Date.now()
\* and a timer is set that runs NotificationDelay ms later, or after that
AddNotificationCall(type, message) ==
    /\ Clock < MaxAddMs * TicksPerMs
    /\ Len(timers) < MaxTimers
    /\ notifications' = AddNotification(notifications, type, message)
    /\ timers' = Append(timers, [id |-> now, due |-> Clock + NotificationDelay * TicksPerMs])
    /\ UNCHANGED <<now, subMs>>
    /\ NotifyOnly

\* prev.filter(n => n.id !== id)
WithoutId(list, id) == SelectSeq(list, LAMBDA n : n.id /= id)

\* the callback of the i-th pending timer runs, at or after its time
TimerFires(i) ==
    /\ i \in 1..Len(timers)
    /\ timers[i].due <= Clock
    /\ notifications' = WithoutId(notifications, timers[i].id)
    /\ timers' = SubSeq(timers, 1, i - 1) \o SubSeq(timers, i + 1, Len(timers))
    /\ UNCHANGED <<now, subMs>>
    /\ NotifyOnly

\* the instants the clock moves to next: the next tick while notifications
\* can still be added, and the times of the pending timers
NextInstants ==
    (IF Clock < MaxAddMs * TicksPerMs THEN {Clock + 1} ELSE {})
    \cup {timers[i].due : i \in 1..Len(timers)}

\* time passes until the instant `to`
TimePasses(to) ==
    /\ to \in NextInstants
    /\ to > Clock
    /\ now' = to \div TicksPerMs
    /\ subMs' = to % TicksPerMs
    /\ UNCHANGED <<notifications, timers>>
    /\ NotifyOnly

(***************************************************************************)
(* The authenticated application, mounted for a signed-in user.            *)
(***************************************************************************)
Tokens == {"t1", "t2"}
Users == {"u1", "u2"}

InitSearchUI ==
    /\ searchQuery = <<>>
    /\ searchResults = NoResults
    /\ spaces = <<>>
    /\ isSearching = FALSE
    /\ notifications = <<>>
    /\ showSpaceSelector = FALSE
    /\ spaceSearchQuery = <<>>
    /\ highlightedSpaceIndex = 0
    /\ selectedSpaceInQuery = NoSpace
    /\ pending = {}
    /\ searchSeq = 0
    /\ spacesPending = 1          \* the mount effect has called fetchSpaces
    /\ sent = <<>>
    /\ received = <<>>
    /\ now = 0
    /\ selectedSpaces = <<>>
    /\ expandedSources = {}
    /\ formData = EmptyForm
    /\ isLogin = TRUE
    /\ formError = <<>>
    /\ formLoading = FALSE
    /\ unmountedCalls = {}
    /\ deletes = {}
    /\ statsPending = 1          \* the mount effect has called fetchStats
    /\ stats = NoStats
    /\ dialog = <<>>
    /\ spaceModal = ClosedModal
    /\ modalForm = EmptyModalForm
    /\ modalErrors = {}
    /\ saves = {}
    /\ timers = <<>>
    /\ subMs = 0

Init ==
    /\ InitSearchUI
    /\ user = "u1"
    /\ token = "t1"
    /\ localStorage = "t1"
    /\ loading = FALSE
    /\ calls = {}
    /\ returned = <<>>
    /\ authResult = <<>>

Next ==
    \/ \E value \in Queries : HandleSearchInputChange(value)
    \/ \E k \in 1..Len(AllSpaces) : ClickSuggestion(k)
    \/ \E key \in Keys, shiftKey \in BOOLEAN : HandleKeyDown(key, shiftKey)
    \/ ClickSearch
    \/ RemoveScope
    \/ \E example \in Examples : ClickExample(example)
    \/ \E k \in 1..Len(AllSpaces) : ClickSpaceCardSearch(k)
    \/ \E r \in pending : \E resp \in SearchResponses(r) : SearchResponse(r, resp)
    \/ \E resp \in SpacesResponses, list \in SpaceLists : FetchSpacesResponse(resp, list)

Spec == Init /\ [][Next]_vars

(***************************************************************************)
(* The same application with every value an input event can deliver, as    *)
(* far as the search input goes: no search is submitted.                   *)
(***************************************************************************)
NextInput ==
    \/ \E value \in Buffers : HandleSearchInputChange(value)
    \/ \E k \in 1..Len(AllSpaces) : ClickSuggestion(k)
    \/ \E key \in Keys : showSpaceSelector /\ HandleKeyDown(key, FALSE)
    \/ RemoveScope
    \/ \E example \in Examples : ClickExample(example)
    \/ \E k \in 1..Len(AllSpaces) : ClickSpaceCardSearch(k)
    \/ \E list \in SpaceLists :
          FetchSpacesResponse([status |-> 200, parses |-> TRUE,
                               body |-> [kind |-> "spaces", req |-> 0]], list)

SpecInput == Init /\ [][NextInput]_vars

(***************************************************************************)
(* Frontend/src/App.jsx: the application without authentication.           *)
(***************************************************************************)
InitApp ==
    /\ InitSearchUI
    /\ user = NoUser
    /\ token = NoToken
    /\ localStorage = NoToken
    /\ loading = FALSE
    /\ calls = {}
    /\ returned = <<>>
    /\ authResult = <<>>

NextApp ==
    \/ \E value \in Queries : HandleSearchInputChange(value)
    \/ \E k \in 1..Len(AllSpaces) : ClickSuggestion(k)
    \/ \E key \in Keys, shiftKey \in BOOLEAN : HandleKeyDownApp(key, shiftKey)
    \/ ClickSearchApp
    \/ RemoveScope
    \/ \E example \in Examples : ClickExample(example)
    \/ \E k \in 1..Len(AllSpaces) : ClickSpaceCardSearch(k)
    \/ \E r \in pending : \E resp \in SearchResponses(r) : SearchResponseApp(r, resp)
    \/ \E resp \in SpacesResponses, list \in SpaceLists : FetchSpacesResponseApp(resp, list)

SpecApp == InitApp /\ [][NextApp]_vars

(***************************************************************************)
(* The spaces tab of the authenticated application, and the same tab of    *)
(* Frontend/src/App.jsx.                                                   *)
(***************************************************************************)
NextSpaces ==
    \/ \E k \in 1..Len(AllSpaces) : \E answer \in BOOLEAN : HandleDeleteSpace(k, answer)
    \/ \E d \in deletes : \E resp \in DeleteResponses : DeleteResponse(d, resp)
    \/ \E resp \in SpacesResponses, list \in SpaceLists : FetchSpacesResponse(resp, list)
    \/ \E resp \in StatsResponses : FetchStatsResponse(resp)

SpecSpaces == Init /\ [][NextSpaces]_vars

NextSpacesApp ==
    \/ \E k \in 1..Len(AllSpaces) : \E answer \in BOOLEAN : HandleDeleteSpaceApp(k, answer)
    \/ \E d \in deletes : \E resp \in DeleteResponses : DeleteResponseApp(d, resp)
    \/ \E resp \in SpacesResponses, list \in SpaceLists : FetchSpacesResponseApp(resp, list)
    \/ \E resp \in StatsResponses : FetchStatsResponseApp(resp)

SpecSpacesApp == InitApp /\ [][NextSpacesApp]_vars

(***************************************************************************)
(* The space modal of the authenticated application.                       *)
(***************************************************************************)
NextModal ==
    \/ OpenCreateModal
    \/ \E k \in 1..Len(AllSpaces) : OpenEditModal(k)
    \/ CloseModal
    \/ \E field \in {"name", "description"} :
          \E value \in ModalValues(field) : ModalInputChange(field, value)
    \/ ModalSubmit
    \/ \E s \in saves : \E resp \in SaveResponses : SaveResponse(s, resp)
    \/ \E resp \in SpacesResponses, list \in SpaceLists : FetchSpacesResponse(resp, list)

SpecModal == Init /\ [][NextModal]_vars

(***************************************************************************)
(* addNotification and its timers in the authenticated application; timers *)
(* that are due do run and time does pass.                                 *)
(***************************************************************************)
NextNotify ==
    \/ \E call \in NotifyCalls : AddNotificationCall(call.type, call.message)
    \/ \E i \in 1..MaxTimers : TimerFires(i)
    \/ \E to \in NextInstants : TimePasses(to)

SpecNotify ==
    /\ Init
    /\ [][NextNotify]_vars
    /\ WF_vars(\E i \in 1..MaxTimers : TimerFires(i))
    /\ WF_vars(\E to \in NextInstants : TimePasses(to))

(***************************************************************************)
(* AuthProvider (contexts/AuthContext.jsx) and its retrying apiCall.       *)
(*                                                                         *)
(* A call in progress is {id, kind, retries, i, phase, hist, waits,        *)
(* bearer}: i is the loop index of apiCall, phase says whether the call is *)
(* suspended at its fetch or at its backoff timer, hist lists the statuses *)
(* of the attempts that have settled and waits the delays, in ms, of the   *)
(* timers set.  kind names the caller: checkAuth, login, register, or      *)
(* "direct" for a component that takes apiCall from the context value.     *)
(***************************************************************************)
MaxCalls == 2        \* apiCall invocations in progress at once
MaxRetries == 3      \* largest `retries` a direct caller passes
MaxDirect == 1       \* direct calls in progress at once

\* apiCall = async (url, options = {}, retries = 3)
DefaultRetries == 3

\* the base of the backoff delay, in ms: setTimeout(resolve, 1000 * (i + 1))
BackoffUnit == 1000

\* the `detail` of an error body: absent, the empty string, or a message
Details == {NoDetail, "", "Incorrect email or password"}

\* the answers of the /auth endpoints; a body that does not parse has no fields
AuthResponses ==
    {[status |-> NetworkError, parses |-> FALSE, access_token |-> NoToken,
      user |-> NoUser, detail |-> NoDetail]}
    \cup {[status |-> 200, parses |-> p, access_token |-> t, user |-> u, detail |-> NoDetail] :
            p \in BOOLEAN, t \in Tokens, u \in Users}
    \cup {[status |-> st, parses |-> TRUE, access_token |-> NoToken, user |-> NoUser, detail |-> d] :
            st \in Statuses \ {200}, d \in Details}
    \cup {[status |-> st, parses |-> FALSE, access_token |-> NoToken, user |-> NoUser,
           detail |-> NoDetail] : st \in Statuses \ {200}}

Path(kind) ==
    IF kind = "checkAuth" THEN "/auth/me"
    ELSE IF kind = "login" THEN "/auth/login"
    ELSE IF kind = "register" THEN "/auth/register"
    ELSE "/direct"

\* the fetch of one attempt of call c
AuthRequest(c) == [path |-> Path(c.kind), bearer |-> c.bearer, attempt |-> c.i + 1]

FreeIds == (1..MaxCalls) \ {c.id : c \in calls}

\* the call record of apiCall(url, options, retries) entering its loop
NewCall(ids, kind, retries, bearer) ==
    [id |-> CHOOSE n \in ids : \A m \in ids : n <= m,
     kind |-> kind, retries |-> retries, i |-> 0, phase |-> "fetch",
     hist |-> <<>>, waits |-> <<>>, bearer |-> bearer]

\* hist and waits are the history of a call: how each of its fetches settled
\* and the delays it waited. The history is kept for the calls of components
\* (kind "direct"), whose callers see what apiCall did.
Recorded(c, history, entry) ==
    IF c.kind = "direct" THEN Append(history, entry) ELSE history

\* what apiCall hands to its caller
Handed(c, outcome, resp) ==
    [id |-> c.id, kind |-> c.kind, retries |-> c.retries, outcome |-> outcome,
     hist |-> IF outcome = "undefined" THEN c.hist ELSE Recorded(c, c.hist, resp.status),
     waits |-> c.waits, status |-> resp.status]

\* an apiCall that treats a 5xx answer on its last attempt as an exception
AttemptThrowsOnLast5xx(c, resp) ==
    IF resp.status /= NetworkError
    THEN IF IsOk(resp) THEN "return"
         ELSE IF resp.status >= 500 /\ c.i < c.retries - 1 THEN "retry"
         ELSE IF resp.status >= 500 THEN "throw"
         ELSE "return"
    ELSE IF c.i = c.retries - 1 THEN "throw" ELSE "retry"

\* an apiCall that retries every answer that is not ok
AttemptRetries4xx(c, resp) ==
    IF resp.status /= NetworkError
    THEN IF IsOk(resp) THEN "return"
         ELSE IF c.i < c.retries - 1 THEN "retry"
         ELSE "return"
    ELSE IF c.i = c.retries - 1 THEN "throw" ELSE "retry"

\* the body of the loop of apiCall once the fetch of attempt c.i has settled:
\* return the response, throw the error, or wait and go round again
Attempt(c, resp) ==
    IF resp.status /= NetworkError
    THEN IF IsOk(resp) THEN "return"
         ELSE IF resp.status >= 500 /\ c.i < c.retries - 1 THEN "retry"
         ELSE "return"
    ELSE IF c.i = c.retries - 1 THEN "throw" ELSE "retry"

\* a backoff that grows with the square of the attempt number
BackoffDelayQuadratic(c) == BackoffUnit * (c.i + 1) * (c.i + 1)

\* a backoff that waits the same time before every attempt
BackoffDelayFlat(c) == BackoffUnit

\* the delay of the timer set after attempt c.i has failed
BackoffDelay(c) == BackoffUnit * (c.i + 1)

\* isAuthenticated: !!token && !!user
IsAuthenticated == token /= NoToken /\ user /= NoUser

\* AppContent renders the AuthForm: not loading and no user
ShowsAuthForm == ~loading /\ user = NoUser

\* the useEffect on [token]: checkAuth for the token value newToken, run when
\* the token state changes; others are the calls that stay in progress
RunCheckAuth(oldToken, newToken, others) ==
    IF newToken = oldToken
    THEN /\ calls' = others
         /\ sent' = <<>>
         /\ UNCHANGED loading
    ELSE IF newToken /= NoToken
    THEN LET c == NewCall((1..MaxCalls) \ {o.id : o \in others}, "checkAuth",
                          DefaultRetries, newToken)
         IN  /\ calls' = others \cup {c}
             /\ sent' = <<AuthRequest(c)>>
             /\ UNCHANGED loading
    ELSE /\ calls' = others
         /\ sent' = <<>>
         /\ loading' = FALSE

\* a failure message that is always the caller's own
FailureMessageOfCaller(resp, failure) == failure

\* error.detail || failure
FailureMessage(resp, failure) ==
    IF resp.detail \notin {NoDetail, ""} THEN resp.detail ELSE failure

\* a login that keeps the token in memory only
LoginDoneNoStorage(c, outcome, resp, failure) ==
    LET others == calls \ {c}
    IN  IF outcome = "return" /\ IsOk(resp) /\ resp.parses
        THEN /\ UNCHANGED localStorage
             /\ token' = resp.access_token
             /\ user' = resp.user
             /\ authResult' = <<[success |-> TRUE, error |-> "none"]>>
             /\ RunCheckAuth(token, resp.access_token, others)
        ELSE /\ authResult' = <<[success |-> FALSE, error |-> "Network error"]>>
             /\ calls' = others
             /\ sent' = <<>>
             /\ UNCHANGED <<localStorage, token, user, loading>>

\* login and register from `await apiCall(...)` on; failure is the fallback
\* message of the caller ('Login failed', 'Registration failed')
LoginDone(c, outcome, resp, failure) ==
    LET others == calls \ {c}
    IN  IF outcome = "return" /\ IsOk(resp) /\ resp.parses
        THEN /\ localStorage' = resp.access_token
             /\ token' = resp.access_token
             /\ user' = resp.user
             /\ authResult' = <<[success |-> TRUE, error |-> "none"]>>
             /\ RunCheckAuth(token, resp.access_token, others)
        ELSE /\ authResult' =
                  IF outcome = "return" /\ ~IsOk(resp) /\ resp.parses
                  THEN <<[success |-> FALSE, error |-> FailureMessage(resp, failure)]>>
                  ELSE <<[success |-> FALSE, error |-> "Network error"]>>
             /\ calls' = others
             /\ sent' = <<>>
             /\ UNCHANGED <<localStorage, token, user, loading>>

\* checkAuth from `await apiCall(...)` on, followed by setLoading(false)
CheckAuthDone(c, outcome, resp) ==
    LET others == calls \ {c}
    IN  IF outcome = "return" /\ IsOk(resp) /\ resp.parses
        THEN /\ user' = resp.user
             /\ loading' = FALSE
             /\ calls' = others
             /\ sent' = <<>>
             /\ authResult' = <<>>
             /\ UNCHANGED <<localStorage, token>>
        ELSE /\ localStorage' = NoToken
             /\ token' = NoToken
             /\ loading' = FALSE
             /\ calls' = others
             /\ sent' = <<>>
             /\ authResult' = <<>>
             /\ UNCHANGED user

\* the caller's code after apiCall has returned or thrown
Continue(c, outcome, resp) ==
    IF c.kind = "checkAuth" THEN CheckAuthDone(c, outcome, resp)
    ELSE IF c.kind = "login" THEN LoginDone(c, outcome, resp, "Login failed")
    ELSE IF c.kind = "register" THEN LoginDone(c, outcome, resp, "Registration failed")
    ELSE /\ calls' = calls \ {c}
         /\ sent' = <<>>
         /\ authResult' = <<>>
         /\ UNCHANGED <<localStorage, token, user, loading>>

\* a handleSubmit that lowers the flag after a success only
LoadingAfterSuccessOnly(result) == ~result.success

\* finally { setLoading(false) }: the flag after login or register has
\* resolved to result
LoadingAfterResult(result) == FALSE

\* AuthForm.handleSubmit from its await on, for call c: setError(result.error)
\* when login or register resolved to a failure, then setLoading(false).
\* A form that is no longer rendered loses its state and the next one is
\* mounted fresh; the state updates of a handleSubmit whose form is gone
\* reach no form.
FormAfterResult(c) ==
    LET resolved == c.kind \in {"login", "register"} /\ authResult' /= <<>>
        mine     == resolved /\ c.id \notin unmountedCalls
    IN  IF ~ShowsAuthForm'
        THEN /\ formData' = EmptyForm
             /\ isLogin' = TRUE
             /\ formError' = <<>>
             /\ formLoading' = FALSE
             /\ unmountedCalls' =
                   {d.id : d \in {e \in calls' : e.kind \in {"login", "register"}}}
        ELSE /\ UNCHANGED <<formData, isLogin>>
             /\ formError' =
                   IF mine /\ ~authResult'[1].success
                   THEN <<authResult'[1].error>>
                   ELSE formError
             /\ formLoading' =
                   IF mine THEN LoadingAfterResult(authResult'[1]) ELSE formLoading
             /\ unmountedCalls' =
                   IF resolved THEN unmountedCalls \ {c.id} ELSE unmountedCalls

searchVars == <<searchQuery, searchResults, spaces, isSearching, notifications,
                showSpaceSelector, spaceSearchQuery, highlightedSpaceIndex,
                selectedSpaceInQuery, pending, searchSeq, spacesPending, now, panelVars>>

\* the fetch of attempt c.i of call c settles with resp
FetchSettles(c, resp) ==
    /\ c \in calls
    /\ c.phase = "fetch"
    /\ resp \in AuthResponses
    /\ UNCHANGED timeVars
    /\ dialog' = <<>>
    /\ UNCHANGED spaceTabVars
    /\ received' = <<[status |-> resp.status, parses |-> resp.parses,
                      body |-> [kind |-> "auth", req |-> c.id]]>>
    /\ LET step == Attempt(c, resp)
       IN  IF step = "retry"
           THEN /\ calls' = (calls \ {c}) \cup
                      {[c EXCEPT !.phase = "backoff",
                                 !.hist = Recorded(c, c.hist, resp.status),
                                 !.waits = Recorded(c, c.waits, BackoffDelay(c))]}
                /\ sent' = <<>>
                /\ returned' = <<>>
                /\ authResult' = <<>>
                /\ UNCHANGED <<localStorage, token, user, loading>>
           ELSE /\ returned' = <<Handed(c, step, resp)>>
                /\ Continue(c, step, resp)
    /\ FormAfterResult(c)
    /\ UNCHANGED searchVars

\* the backoff timer of call c fires: the loop goes round, the next fetch is made
BackoffElapses(c) ==
    /\ c \in calls
    /\ c.phase = "backoff"
    /\ LET d == [c EXCEPT !.phase = "fetch", !.i = c.i + 1]
       IN  /\ calls' = (calls \ {c}) \cup {d}
           /\ sent' = <<AuthRequest(d)>>
    /\ UNCHANGED timeVars
    /\ dialog' = <<>>
    /\ UNCHANGED spaceTabVars
    /\ received' = <<>>
    /\ returned' = <<>>
    /\ authResult' = <<>>
    /\ UNCHANGED <<localStorage, token, user, loading>>
    /\ UNCHANGED formVars
    /\ UNCHANGED searchVars

\* login(email, password) or register(username, email, password) is called by
\* AuthForm.handleSubmit: the form is shown while no user is set and the
\* provider is not loading, and its submit control is disabled while a
\* submission is in progress
SubmitAuthForm(kind) ==
    /\ kind \in {"login", "register"}
    /\ ShowsAuthForm
    /\ ~formLoading
    /\ FreeIds /= {}
    /\ LET c == NewCall(FreeIds, kind, DefaultRetries, NoToken)
       IN  /\ calls' = calls \cup {c}
           /\ sent' = <<AuthRequest(c)>>
    /\ UNCHANGED timeVars
    /\ dialog' = <<>>
    /\ UNCHANGED spaceTabVars
    /\ received' = <<>>
    /\ returned' = <<>>
    /\ authResult' = <<>>
    /\ UNCHANGED <<localStorage, token, user, loading>>
    /\ formError' = <<>>
    /\ formLoading' = TRUE
    /\ UNCHANGED <<formData, isLogin, unmountedCalls>>
    /\ UNCHANGED searchVars

\* ---- AuthForm
\* formData.password.length < 6
MinPasswordLength == 6

\* what is typed into the email field: nothing, a good address, and addresses
\* with no dot after the `@`, with whitespace, with nothing after the dot,
\* with two `@` and with nothing before the `@`
Emails ==
    { <<>>,
      <<"a", "@", "b", ".", "c">>,
      <<"a", "@", "b">>,
      <<"a", " ", "@", "b", ".", "c">>,
      <<"a", "@", "b", ".">>,
      <<"a", "@", "@", "b", ".", "c">>,
      <<"@", "b", ".", "c">> }

\* what is typed into the password fields: nothing, five and six characters
Passwords ==
    { <<>>, <<"p", "p", "p", "p", "p">>, <<"p", "p", "p", "p", "p", "p">> }

Usernames == { <<>>, <<"u">> }

\* the values an input event of the field `name` can deliver
FieldValues(name) ==
    IF name = "email" THEN Emails
    ELSE IF name = "username" THEN Usernames
    ELSE Passwords

\* /^[^\s@]+@[^\s@]+\.[^\s@]+$/.test(s): the regular expression matches when
\* some `@` that is not the first character is followed, after at least one
\* character, by a `.` that is not the last character, and no other character
\* of s is whitespace or `@`
EmailRegexTest(s) ==
    \E a \in 2..Len(s) : \E d \in (a + 2)..(Len(s) - 1) :
        /\ s[a] = "@"
        /\ s[d] = "."
        /\ \A k \in 1..Len(s) : k /= a => (~IsWhitespace(s[k]) /\ s[k] /= "@")

\* a validateForm that accepts a password of any length
ValidationErrorAnyLength ==
    IF formData.email = <<>> \/ formData.password = <<>>
    THEN <<"Email and password are required">>
    ELSE IF ~isLogin /\ formData.username = <<>>
    THEN <<"Username is required">>
    ELSE IF ~isLogin /\ formData.password /= formData.confirmPassword
    THEN <<"Passwords do not match">>
    ELSE IF ~EmailRegexTest(formData.email)
    THEN <<"Please enter a valid email address">>
    ELSE <<>>

\* validateForm: the message of the first check that fails, none when it
\* returns true
ValidationError ==
    IF formData.email = <<>> \/ formData.password = <<>>
    THEN <<"Email and password are required">>
    ELSE IF ~isLogin /\ formData.username = <<>>
    THEN <<"Username is required">>
    ELSE IF ~isLogin /\ formData.password /= formData.confirmPassword
    THEN <<"Passwords do not match">>
    ELSE IF Len(formData.password) < MinPasswordLength
    THEN <<"Password must be at least 6 characters long">>
    ELSE IF ~EmailRegexTest(formData.email)
    THEN <<"Please enter a valid email address">>
    ELSE <<>>

\* the steps of the form that touch nothing outside it
FormOnly ==
    /\ sent' = <<>>
    /\ UNCHANGED timeVars
    /\ dialog' = <<>>
    /\ UNCHANGED spaceTabVars
    /\ received' = <<>>
    /\ UNCHANGED authVars
    /\ UNCHANGED searchVars

\* handleInputChange(e), e.target.name = name, e.target.value = value
HandleInputChange(name, value) ==
    /\ ShowsAuthForm
    /\ ~formLoading
    /\ value \in FieldValues(name)
    /\ value /= formData[name]
    /\ formData' = [formData EXCEPT ![name] = value]
    /\ formError' = <<>>
    /\ UNCHANGED <<isLogin, formLoading, unmountedCalls>>
    /\ FormOnly

\* toggleMode, from the link below the form
ToggleMode ==
    /\ ShowsAuthForm
    /\ ~formLoading
    /\ isLogin' = ~isLogin
    /\ formData' = EmptyForm
    /\ formError' = <<>>
    /\ UNCHANGED <<formLoading, unmountedCalls>>
    /\ FormOnly

\* handleSubmit(e) up to its await; the fields, the submit button and the
\* mode link are disabled while the loading flag of the form is set
HandleSubmit ==
    IF ValidationError /= <<>>
    THEN /\ ShowsAuthForm
         /\ ~formLoading
         /\ formError' = ValidationError
         /\ UNCHANGED <<formData, isLogin, formLoading, unmountedCalls>>
         /\ FormOnly
    ELSE SubmitAuthForm(IF isLogin THEN "login" ELSE "register")

\* a component calls the apiCall of the context value with its own `retries`
DirectApiCall(retries) ==
    /\ retries \in 0..MaxRetries
    /\ FreeIds /= {}
    /\ Cardinality({c \in calls : c.kind = "direct"}) < MaxDirect
    /\ LET c == NewCall(FreeIds, "direct", retries, localStorage)
       IN  IF retries = 0
           THEN /\ returned' = <<Handed(c, "undefined", [status |-> NetworkError])>>
                /\ sent' = <<>>
                /\ UNCHANGED calls
           ELSE /\ calls' = calls \cup {c}
                /\ sent' = <<AuthRequest(c)>>
                /\ returned' = <<>>
    /\ UNCHANGED timeVars
    /\ dialog' = <<>>
    /\ UNCHANGED spaceTabVars
    /\ received' = <<>>
    /\ authResult' = <<>>
    /\ UNCHANGED <<localStorage, token, user, loading>>
    /\ UNCHANGED formVars
    /\ UNCHANGED searchVars

\* logout(), from the sidebar of the authenticated application
Logout ==
    /\ user /= NoUser
    /\ ~loading
    /\ localStorage' = NoToken
    /\ token' = NoToken
    /\ user' = NoUser
    /\ RunCheckAuth(token, NoToken, calls)
    /\ UNCHANGED timeVars
    /\ dialog' = <<>>
    /\ UNCHANGED spaceTabVars
    /\ received' = <<>>
    /\ returned' = <<>>
    /\ authResult' = <<>>
    /\ UNCHANGED formVars
    /\ UNCHANGED searchVars

\* the provider is constructed with the token of an earlier session, if any,
\* and its effect has run checkAuth once
InitAuth ==
    /\ searchQuery = <<>>
    /\ searchResults = NoResults
    /\ spaces = <<>>
    /\ isSearching = FALSE
    /\ notifications = <<>>
    /\ showSpaceSelector = FALSE
    /\ spaceSearchQuery = <<>>
    /\ highlightedSpaceIndex = 0
    /\ selectedSpaceInQuery = NoSpace
    /\ pending = {}
    /\ searchSeq = 0
    /\ spacesPending = 0
    /\ now = 0
    /\ selectedSpaces = <<>>
    /\ expandedSources = {}
    /\ formData = EmptyForm
    /\ isLogin = TRUE
    /\ formError = <<>>
    /\ formLoading = FALSE
    /\ unmountedCalls = {}
    /\ deletes = {}
    /\ statsPending = 0
    /\ stats = NoStats
    /\ dialog = <<>>
    /\ spaceModal = ClosedModal
    /\ modalForm = EmptyModalForm
    /\ modalErrors = {}
    /\ saves = {}
    /\ timers = <<>>
    /\ subMs = 0
    /\ sent = <<>>
    /\ received = <<>>
    /\ returned = <<>>
    /\ authResult = <<>>
    /\ user = NoUser
    /\ localStorage \in {NoToken, "t1"}
    /\ token = localStorage
    /\ loading = (token /= NoToken)
    /\ calls = IF token /= NoToken
               THEN {NewCall(1..MaxCalls, "checkAuth", DefaultRetries, token)}
               ELSE {}

NextAuth ==
    \/ \E c \in calls : \E resp \in AuthResponses : FetchSettles(c, resp)
    \/ \E c \in calls : BackoffElapses(c)
    \/ \E kind \in {"login", "register"} : SubmitAuthForm(kind)
    \/ Logout

SpecAuth == InitAuth /\ [][NextAuth]_vars

\* the sign-in form on its own: nobody is signed in when the page loads
InitForm == InitAuth /\ localStorage = NoToken

NextForm ==
    \/ \E name \in {"username", "email", "password", "confirmPassword"} :
          \E value \in FieldValues(name) : HandleInputChange(name, value)
    \/ ToggleMode
    \/ HandleSubmit
    \/ \E c \in calls : \E resp \in AuthResponses : FetchSettles(c, resp)
    \/ \E c \in calls : BackoffElapses(c)

SpecForm == InitForm /\ [][NextForm]_vars

(***************************************************************************)
(* apiCall on its own, called with every `retries` up to MaxRetries.       *)
(***************************************************************************)
NextRetry ==
    \/ \E retries \in 0..MaxRetries : DirectApiCall(retries)
    \/ \E c \in calls : \E resp \in AuthResponses : FetchSettles(c, resp)
    \/ \E c \in calls : BackoffElapses(c)

SpecRetry == InitAuth /\ [][NextRetry]_vars

(***************************************************************************)
(* The results panel (EnhancedSearchResults) of the search tab.            *)
(***************************************************************************)
MaxFocus == 1        \* Focus actions in a behaviour

\* searchResults.sources as the sources view maps over it; the panel is
\* rendered only while searchResults is set
SourcesShown ==
    IF searchResults /= NoResults /\ "sources" \in DOMAIN searchResults
    THEN searchResults.sources ELSE <<>>

\* expandedSources[source.id] ? source.full_text : source.text_preview
IsExpanded(sourceId) == sourceId \in expandedSources

\* toggleSourceExpansion(sourceId), from the chevron button of a source
ToggleSourceExpansion(sourceId) ==
    /\ \E k \in 1..Len(SourcesShown) : SourcesShown[k].id = sourceId
    /\ expandedSources' = IF sourceId \in expandedSources
                          THEN expandedSources \ {sourceId}
                          ELSE expandedSources \cup {sourceId}
    /\ sent' = <<>>
    /\ UNCHANGED timeVars
    /\ dialog' = <<>>
    /\ UNCHANGED spaceTabVars
    /\ received' = <<>>
    /\ UNCHANGED <<searchResults, spaces, isSearching, notifications, now, selectedSpaces>>
    /\ UNCHANGED formVars
    /\ UNCHANGED inputVars
    /\ UNCHANGED netVars
    /\ UNCHANGED authVars

\* setSelectedSpaces([spaceId])
FocusedSpaces(source) == <<source.space_id>>

\* onDocumentSelect(source.filename, source.space_id), from the Focus button
\* of the k-th source
OnDocumentSelect(k) ==
    /\ k \in 1..Len(SourcesShown)
    /\ Len(SelectSeq(notifications, LAMBDA n : n.type = "info")) < MaxFocus
    /\ selectedSpaces' = FocusedSpaces(SourcesShown[k])
    /\ notifications' = AddNotification(notifications, "info", "Focused search")
    /\ sent' = <<>>
    /\ UNCHANGED timeVars
    /\ dialog' = <<>>
    /\ UNCHANGED spaceTabVars
    /\ received' = <<>>
    /\ UNCHANGED <<searchResults, spaces, isSearching, now, expandedSources>>
    /\ UNCHANGED formVars
    /\ UNCHANGED inputVars
    /\ UNCHANGED netVars
    /\ UNCHANGED authVars

\* what is typed into the search input while the panel is looked at
PanelQueries == { <<>>, <<"M">>, <<"@">> }

NextPanel ==
    \/ \E value \in PanelQueries : HandleSearchInputChange(value)
    \/ \E k \in 1..Len(AllSpaces) : ClickSuggestion(k)
    \/ HandleKeyDown("Enter", FALSE)
    \/ ClickSearch
    \/ \E r \in pending : \E resp \in PanelResponses(r) : SearchResponse(r, resp)
    \/ \E list \in SpaceLists :
          FetchSpacesResponse([status |-> 200, parses |-> TRUE,
                               body |-> [kind |-> "spaces", req |-> 0]], list)
    \/ \E k \in 1..2 : OnDocumentSelect(k)
    \/ \E sourceId \in 1..2 : ToggleSourceExpansion(sourceId)

SpecPanel == Init /\ [][NextPanel]_vars

(***************************************************************************)
(* Properties of the search request composer.                              *)
(***************************************************************************)
\* the buffer without the first `@<name>` of the selected space
WithoutMention(buffer, space) ==
    IF space = NoSpace THEN buffer ELSE ReplaceFirst(buffer, Mention(space))

\* a response that makes a search a failed one
FailedResponse(resp) ==
    resp.status = NetworkError \/ ~IsOk(resp) \/ ~resp.parses

\* the step handled the response to a search
SearchAnswered == received' /= <<>> /\ pending' /= pending

\* C1: a handleSearch that runs on a buffer whose trimmed text is not empty
\* issues exactly one request, and its q is the buffer without the mention of
\* the selected space, trimmed (the buffer is the one still shown after the call)
C1_OneRequestWithTrimmedQuery ==
    sent /= <<>> =>
        /\ Len(sent) = 1
        /\ sent[1].q = Trim(WithoutMention(searchQuery, selectedSpaceInQuery))

\* C2: no search request carries a query that is empty or whitespace only:
\* when the query that would be sent is blank, submitting makes no network call
C2_NoRequestForBlankQuery ==
    \A i \in 1..Len(sent) : Trim(sent[i].q) /= <<>>

\* C3: a step that handles a failed answer to a search (not 2xx, a body that
\* does not parse, a fetch that throws) leaves searchResults as it was and
\* appends one notification of type error
C3_FailedSearchKeepsResults ==
    [][ (SearchAnswered /\ FailedResponse(received'[1])) =>
            /\ searchResults' = searchResults
            /\ Len(notifications') = Len(notifications) + 1
            /\ notifications'[Len(notifications')].type = "error" ]_vars

\* C4: whenever a 2xx answer with a parsable body has just been handled,
\* searchResults is that answer's body, whichever request it answers: also when
\* it answers an earlier request than the latest one issued
C4_EveryAnswerReplacesResults ==
    (/\ received /= <<>>
     /\ received[1].status = 200
     /\ received[1].parses
     /\ received[1].body.kind = "results")
        => searchResults = received[1].body

\* two searches overlapped, the answer to the second was stored first and the
\* answer to the first has just been stored over it
C4_StaleAnswerShown ==
    /\ searchSeq = 2
    /\ pending = {}
    /\ received /= <<>>
    /\ received[1].status = 200
    /\ received[1].body = [kind |-> "results", req |-> 1]
    /\ searchResults = [kind |-> "results", req |-> 1]
    /\ Len(SelectSeq(notifications, LAMBDA n : n.message = "Search completed")) = 2

\* the buffer " M" was submitted with no scope and went out as it was
C1_UntrimmedQuerySent ==
    /\ searchQuery = <<" ", "M">>
    /\ selectedSpaceInQuery = NoSpace
    /\ Len(sent) = 1
    /\ sent[1].q = <<" ", "M">>

\* the buffer "@M " was submitted with the space M as scope: a request with an
\* empty q went out
C2_BlankQuerySent ==
    /\ searchQuery = <<"@", "M", " ">>
    /\ selectedSpaceInQuery = AllSpaces[1]
    /\ Len(sent) = 1
    /\ sent[1].q = <<>>
    /\ sent[1].space_ids = <<1>>

\* a 401 answer with a body that parses has been stored as the results of the
\* search and announced as a success
C3_RejectionStoredAsResults ==
    /\ received /= <<>>
    /\ received[1].status = 401
    /\ received[1].body = [kind |-> "error", req |-> 1]
    /\ searchResults = received[1].body
    /\ notifications /= <<>>
    /\ notifications[Len(notifications)].type = "success"

\* the fetches call c has made so far
Attempts(c) == Len(c.hist) + (IF c.phase = "fetch" THEN 1 ELSE 0)

\* attempt number k of a call ended in a 5xx answer or a thrown error
ServerFailure(status) == status = NetworkError \/ status >= 500

\* C5: a call of apiCall(url, options, retries) makes at most `retries`
\* fetches; every fetch it made before its latest one ended in a 5xx answer or
\* a thrown error; and a 2xx or 4xx answer is returned to the caller in the
\* step that receives it
C5_AtMostRetriesAttempts ==
    /\ \A c \in calls : c.kind = "direct" =>
          /\ Attempts(c) <= c.retries
          /\ \A k \in 1..Len(c.hist) : ServerFailure(c.hist[k])
    /\ \A n \in 1..Len(returned) : returned[n].kind = "direct" =>
          /\ Len(returned[n].hist) <= returned[n].retries
          /\ \A k \in 1..(Len(returned[n].hist) - 1) : ServerFailure(returned[n].hist[k])
    /\ (received /= <<>> /\ received[1].status \in {200, 401}) =>
          /\ returned /= <<>>
          /\ returned[1].outcome = "return"
          /\ returned[1].status = received[1].status
          /\ \A c \in calls : c.id /= returned[1].id

\* a call with the default three attempts threw, then got a 500, then a 401,
\* which it returned
C5_ThrowThen500Then401 ==
    /\ returned /= <<>>
    /\ returned[1].kind = "direct"
    /\ returned[1].retries = DefaultRetries
    /\ returned[1].hist = <<NetworkError, 500, 401>>
    /\ returned[1].outcome = "return"

\* the call handed back had made all the fetches it was allowed
FinalAttempt(r) == r.kind = "direct" /\ r.retries >= 1 /\ Len(r.hist) = r.retries

\* C6, as claimed: when the last allowed attempt ends in a thrown error or in
\* a 5xx answer, apiCall throws
C6_FinalFailureIsThrown ==
    \A n \in 1..Len(returned) :
        (FinalAttempt(returned[n]) /\ ServerFailure(returned[n].status))
            => returned[n].outcome = "throw"

\* C6, amended: an error thrown by the last allowed attempt is re-thrown to the
\* caller, and apiCall throws in no other case; a 5xx answer to the last
\* allowed attempt is returned to the caller as a response
C6_FinalErrorThrownFinal5xxReturned ==
    \A n \in 1..Len(returned) :
        LET r == returned[n]
        IN  r.kind = "direct" =>
              /\ (FinalAttempt(r) /\ r.status = NetworkError) => r.outcome = "throw"
              /\ (FinalAttempt(r) /\ r.status >= 500) => r.outcome = "return"
              /\ r.outcome = "throw" => (FinalAttempt(r) /\ r.status = NetworkError)

\* three attempts, three 500 answers: the third is returned, nothing is thrown
C6_Final500Returned ==
    /\ returned /= <<>>
    /\ returned[1].kind = "direct"
    /\ returned[1].hist = <<500, 500, 500>>
    /\ returned[1].retries = 3
    /\ returned[1].outcome = "return"

\* C7: a call whose first two attempts got a 500 and whose third got a 200
\* returns the 200 answer and is over (no fourth attempt), having waited
\* 1000 ms and then 2000 ms; the wait after the k-th failed attempt of any
\* call is k * 1000 ms
C7_BackoffIsLinear ==
    /\ \A n \in 1..Len(returned) :
          LET r == returned[n]
          IN  /\ \A k \in 1..Len(r.waits) : r.waits[k] = k * 1000
              /\ (r.kind = "direct" /\ r.hist = <<500, 500, 200>>) =>
                    /\ r.outcome = "return"
                    /\ r.status = 200
                    /\ r.waits = <<1000, 2000>>
                    /\ \A c \in calls : c.id /= r.id
    /\ \A c \in calls : \A k \in 1..Len(c.waits) : c.waits[k] = k * 1000

\* 500, 500, 200: the call has returned
C7_Returned200AfterTwo500 ==
    /\ returned /= <<>>
    /\ returned[1].kind = "direct"
    /\ returned[1].hist = <<500, 500, 200>>
    /\ returned[1].waits = <<1000, 2000>>

\* C8: when login or register receives a 2xx answer whose body parses to
\* {access_token, user}, then after the step local storage holds access_token,
\* the token state is access_token, user is the user of the answer,
\* isAuthenticated is true and the call resolves to {success: true}
C8_LoginStoresTokenAndUser ==
    [][ \A c \in calls : \A resp \in AuthResponses :
          (/\ c.kind \in {"login", "register"}
           /\ resp.status = 200
           /\ resp.parses
           /\ FetchSettles(c, resp)) =>
              /\ localStorage' = resp.access_token
              /\ token' = resp.access_token
              /\ user' = resp.user
              /\ IsAuthenticated'
              /\ authResult' = <<[success |-> TRUE, error |-> "none"]>> ]_vars

\* a registration has just succeeded with the token t2 for the user u2
C8_RegisteredAndSignedIn ==
    /\ returned /= <<>>
    /\ returned[1].kind = "register"
    /\ authResult = <<[success |-> TRUE, error |-> "none"]>>
    /\ localStorage = "t2"
    /\ token = "t2"
    /\ user = "u2"
    /\ IsAuthenticated

\* C9: after a 401 answer to an authenticated call the token is gone from
\* local storage, the application is not authenticated and the login form is
\* shown
C9_RejectedTokenIsCleared ==
    (received /= <<>> /\ received[1].status = 401) =>
        /\ localStorage = NoToken
        /\ ~IsAuthenticated
        /\ ShowsAuthForm

\* a search was answered 401: the token is still stored and the search
\* interface is still shown
C9_TokenKeptAfter401 ==
    /\ received /= <<>>
    /\ received[1].status = 401
    /\ received[1].body = [kind |-> "error", req |-> 1]
    /\ localStorage = "t1"
    /\ IsAuthenticated
    /\ ~ShowsAuthForm

\* the step commits the k-th space of the list by a click or by Enter
Commits(k) ==
    \/ ClickSuggestion(k)
    \/ /\ showSpaceSelector
       /\ k \in 1..Len(FilteredSpaces)
       /\ highlightedSpaceIndex + 1 = k
       /\ \E shiftKey \in BOOLEAN : HandleKeyDown("Enter", shiftKey)

\* C10: committing a suggestion sets the buffer to the text before the last
\* `@` followed by `@<SpaceName> `, makes that space the scope and closes the
\* suggestion list (a buffer holding no `@` has no text before it)
C10_CommitRewritesFromLastAt ==
    [][ \A k \in 1..Len(AllSpaces) :
          Commits(k) =>
            LET space == FilteredSpaces[k]
                at    == LastIndexOf(searchQuery, <<"@">>)
            IN  /\ searchQuery' = SubSeq(searchQuery, 1, at) \o <<"@">> \o space.name \o <<" ">>
                /\ selectedSpaceInQuery' = space
                /\ showSpaceSelector' = FALSE ]_vars

\* a suggestion was committed into a buffer with text before and after the `@`
C10_CommittedAfterText ==
    /\ searchQuery = <<"M", "@", "M", " ">>
    /\ spaceSearchQuery = <<"M">>
    /\ selectedSpaceInQuery = AllSpaces[1]
    /\ ~showSpaceSelector

(***************************************************************************)
(* Properties of the suggestion list.                                      *)
(***************************************************************************)
\* the text of value after its last `@`
AfterLastAt(value) ==
    SubSeq(value, LastIndexOf(value, <<"@">>) + 2, Len(value))

\* value ends in `@` followed by a non-empty text
EndsInAtPrefix(value) ==
    /\ LastIndexOf(value, <<"@">>) /= -1
    /\ AfterLastAt(value) /= <<>>

\* name contains P, letter case ignored
ContainsIgnoringCase(name, P) ==
    \E i \in 0..(Len(name) - Len(P)) :
        \A j \in 1..Len(P) : LowerChar(name[i + j]) = LowerChar(P[j])

\* the suggestion list is open and shows the spaces whose name contains P,
\* in the order of the space list
ShowsSpacesMatching(P) ==
    /\ showSpaceSelector
    /\ FilteredSpaces = SelectSeq(spaces, LAMBDA space : ContainsIgnoringCase(space.name, P))

\* C11, as claimed: after an input event whose value ends in `@` followed by
\* a non-empty P, the suggestion list is open and shows exactly the spaces
\* whose name contains P case-insensitively, in the order of the space list
C11_ListShowsSpacesMatchingPrefix ==
    [][ \A value \in Buffers :
          (HandleSearchInputChange(value) /\ EndsInAtPrefix(value))
              => ShowsSpacesMatching(AfterLastAt(value))' ]_vars

\* C11, amended: the same while no scope is selected; an input event of that
\* shape that arrives while a scope is selected leaves the suggestion list,
\* open or closed, and its filter text as they were
C11_ListShowsMatchesWhenNoScope ==
    [][ \A value \in Buffers :
          (HandleSearchInputChange(value) /\ EndsInAtPrefix(value)) =>
              IF selectedSpaceInQuery = NoSpace
              THEN ShowsSpacesMatching(AfterLastAt(value))'
              ELSE UNCHANGED <<showSpaceSelector, spaceSearchQuery>> ]_vars

\* `@MM` was typed with no scope selected: of the three spaces the list shows
\* the one named Mm
C11_ListNarrowedToOneSpace ==
    /\ searchQuery = <<"@", "M", "M">>
    /\ selectedSpaceInQuery = NoSpace
    /\ spaces = AllSpaces
    /\ showSpaceSelector
    /\ FilteredSpaces = <<AllSpaces[3]>>

\* C12: while the suggestion list is open with n >= 1 filtered spaces,
\* ArrowDown moves the highlighted index i to (i + 1) mod n and ArrowUp moves
\* it to (i - 1) mod n
C12_ArrowsCycleHighlight ==
    [][ LET n == Len(FilteredSpaces)
            i == highlightedSpaceIndex
        IN  (showSpaceSelector /\ n >= 1) =>
              /\ HandleKeyDown("ArrowDown", FALSE) => highlightedSpaceIndex' = (i + 1) % n
              /\ HandleKeyDown("ArrowUp", FALSE) => highlightedSpaceIndex' = (i - 1) % n ]_vars

\* the list is open on the single space matching `@MM` and the highlighted
\* index is past its end
C12_HighlightPastEndOfList ==
    /\ showSpaceSelector
    /\ searchQuery = <<"@", "M", "M">>
    /\ Len(FilteredSpaces) = 1
    /\ highlightedSpaceIndex = 1

\* C13: a key-down of Enter submits a search only when the suggestion list
\* is closed and Shift is not held (and then it does, for a buffer that is not
\* blank); with the list open, Enter submits nothing and commits the
\* highlighted suggestion if there is one, and Escape closes the list and
\* leaves the buffer and the scope as they are
C13_EnterSubmitsOnlyWhenListClosed ==
    [][ \A shiftKey \in BOOLEAN :
          /\ (HandleKeyDown("Enter", shiftKey) /\ sent' /= <<>>)
                => (~showSpaceSelector /\ ~shiftKey)
          /\ (HandleKeyDown("Enter", shiftKey) /\ ~showSpaceSelector /\ ~shiftKey
                /\ Trim(searchQuery) /= <<>>)
                => (Len(sent') = 1 /\ pending' /= pending)
          /\ (HandleKeyDown("Enter", shiftKey) /\ showSpaceSelector) =>
                /\ sent' = <<>>
                /\ pending' = pending
                /\ highlightedSpaceIndex + 1 \in 1..Len(FilteredSpaces) =>
                      /\ selectedSpaceInQuery' = FilteredSpaces[highlightedSpaceIndex + 1]
                      /\ showSpaceSelector' = FALSE
          /\ (HandleKeyDown("Escape", shiftKey) /\ showSpaceSelector) =>
                /\ showSpaceSelector' = FALSE
                /\ sent' = <<>>
                /\ UNCHANGED <<searchQuery, selectedSpaceInQuery>> ]_vars

\* the second suggestion was highlighted and committed, and no search has
\* been submitted
C13_HighlightedCommittedNoSearch ==
    /\ searchQuery = <<"@", "m", " ">>
    /\ selectedSpaceInQuery = AllSpaces[2]
    /\ highlightedSpaceIndex = 1
    /\ ~showSpaceSelector
    /\ searchSeq = 0
    /\ sent = <<>>

\* C14: the "x" of the scope chip clears the scope and leaves the buffer equal
\* to the old buffer with `@<name>` of the scope removed, trimmed; afterwards
\* the buffer does not contain `@<name>` of the removed scope
C14_RemoveScopeStripsMention ==
    [][ RemoveScope =>
          /\ selectedSpaceInQuery' = NoSpace
          /\ searchQuery' = Trim(WithoutMention(searchQuery, selectedSpaceInQuery))
          /\ ~Includes(searchQuery', Mention(selectedSpaceInQuery)) ]_vars

\* the scope M has been removed from a buffer that named it twice: the buffer
\* still holds `@M`
C14_MentionLeftAfterRemoval ==
    /\ searchQuery = <<"@", "M">>
    /\ selectedSpaceInQuery = NoSpace
    /\ spaceSearchQuery = <<>>
    /\ highlightedSpaceIndex = 0
    /\ ~showSpaceSelector

(***************************************************************************)
(* Properties of the scope of a search.                                    *)
(***************************************************************************)
\* the list of spaces holds a space of that name
SpaceNamed(name) == \E k \in 1..Len(spaces) : spaces[k].name = name

\* C15: whenever a search is submitted from the buffer `@M M` while a space
\* named M is in the space list, the request carries q = `M` and the id of
\* that space as space_ids, however the buffer came to hold the text
C15_MentionInTextScopesSearch ==
    (sent /= <<>> /\ searchQuery = <<"@", "M", " ", "M">> /\ SpaceNamed(<<"M">>)) =>
        /\ sent[1].q = <<"M">>
        /\ sent[1].space_ids = <<AllSpaces[1].id>>

\* the example button wrote `@M M` into the buffer and the search went out
\* with the whole text as q and no space_ids
C15_ExampleSentUnscoped ==
    /\ searchQuery = <<"@", "M", " ", "M">>
    /\ SpaceNamed(<<"M">>)
    /\ selectedSpaceInQuery = NoSpace
    /\ Len(sent) = 1
    /\ sent[1].q = <<"@", "M", " ", "M">>
    /\ sent[1].space_ids = <<>>

\* C16: the Focus action issues no search request, and every search
\* submitted after it (here: while no scope is selected in the buffer) carries
\* the space of the focused source as space_ids
C16_FocusScopesLaterSearches ==
    [][ /\ \A k \in 1..2 : OnDocumentSelect(k) => (sent' = <<>> /\ pending' = pending)
        /\ (sent' /= <<>> /\ selectedSpaces /= <<>> /\ selectedSpaceInQuery = NoSpace)
              => sent'[1].space_ids = selectedSpaces ]_vars

\* a source of space 2 was focused, and the search submitted afterwards went
\* out with no space_ids
C16_SearchAfterFocusUnscoped ==
    /\ selectedSpaces = <<2>>
    /\ selectedSpaceInQuery = NoSpace
    /\ searchSeq = 2
    /\ Len(sent) = 1
    /\ sent[1].space_ids = <<>>

\* C17: when the 2xx answer to a search has just replaced the result set,
\* every source of the new result set is shown as its preview
C17_NewResultsShowPreviews ==
    [][ (SearchAnswered /\ received'[1].status = 200 /\ received'[1].parses) =>
          \A k \in 1..Len(SourcesShown') : ~IsExpanded(SourcesShown[k].id)' ]_vars

\* the answer to the second search has just replaced the result set, and its
\* source 1 is shown in full because source 1 of the first result set was
\* expanded
C17_SourceStaysExpanded ==
    /\ searchSeq = 2
    /\ received /= <<>>
    /\ received[1].status = 200
    /\ received[1].body.req = 2
    /\ searchResults = received[1].body
    /\ \E k \in 1..Len(SourcesShown) : SourcesShown[k].id = 1
    /\ IsExpanded(1)

(***************************************************************************)
(* Properties of the sign-in form and of login and register.               *)
(***************************************************************************)
\* text holds no whitespace and no `@`, and is not empty
PlainPart(text) ==
    /\ text /= <<>>
    /\ \A k \in 1..Len(text) : text[k] \notin {" ", "@"}

\* email has the shape x@y.z
HasEmailShape(email) ==
    \E i \in 1..Len(email) : \E j \in (i + 1)..Len(email) :
        /\ email[i] = "@"
        /\ email[j] = "."
        /\ PlainPart(SubSeq(email, 1, i - 1))
        /\ PlainPart(SubSeq(email, i + 1, j - 1))
        /\ PlainPart(SubSeq(email, j + 1, Len(email)))

\* every check the form makes passes
FormIsValid ==
    /\ formData.email /= <<>>
    /\ formData.password /= <<>>
    /\ Len(formData.password) >= 6
    /\ HasEmailShape(formData.email)
    /\ ~isLogin => (formData.username /= <<>> /\ formData.confirmPassword = formData.password)

\* C18: a run of handleSubmit issues a request, the one of login in login
\* mode and the one of register in register mode, only if every check passes;
\* when a check fails it starts no call, issues no request and sets the error
\* message of the form
C18_SubmitOnlyWhenFormValid ==
    [][ HandleSubmit =>
          IF FormIsValid
          THEN /\ Len(sent') = 1
               /\ sent'[1].path = IF isLogin THEN "/auth/login" ELSE "/auth/register"
               /\ formError' = <<>>
          ELSE /\ sent' = <<>>
               /\ calls' = calls
               /\ formError' /= <<>> ]_vars

\* a registration with a good address, a user name and two equal passwords of
\* five characters was refused by the form, and no call is in progress
C18_ShortPasswordRefused ==
    /\ ~isLogin
    /\ formData = [username |-> <<"u">>, email |-> <<"a", "@", "b", ".", "c">>,
                   password |-> <<"p", "p", "p", "p", "p">>,
                   confirmPassword |-> <<"p", "p", "p", "p", "p">>]
    /\ formError = <<"Password must be at least 6 characters long">>
    /\ calls = {}
    /\ sent = <<>>

\* the answer resp is an error answer of the application that carries a
\* `detail` message
HasDetail(resp) ==
    /\ resp.status /= NetworkError
    /\ ~IsOk(resp)
    /\ resp.parses
    /\ resp.detail \notin {NoDetail, ""}

\* call c is over and login or register has resolved to a failure with the
\* `detail` of resp, leaving token, user and local storage as they were
ResolvesToDetail(c, resp) ==
    /\ \A d \in calls' : d.id /= c.id
    /\ sent' = <<>>
    /\ authResult' = <<[success |-> FALSE, error |-> resp.detail]>>
    /\ token' = token
    /\ user' = user
    /\ localStorage' = localStorage

\* C19: when a fetch of login or register is answered with a non-2xx answer
\* that carries a `detail`, the call is not retried and resolves to
\* {success: false, error: detail}, and token, user and local storage stay
C19_DetailNotRetried ==
    [][ \A c \in calls : \A resp \in AuthResponses :
          (/\ c.kind \in {"login", "register"}
           /\ HasDetail(resp)
           /\ FetchSettles(c, resp)) => ResolvesToDetail(c, resp) ]_vars

\* C19, amended: the same for a 4xx answer with a `detail` and for a 5xx
\* answer with a `detail` to the last attempt; a 5xx answer with a `detail`
\* to an earlier attempt is retried after the backoff, login or register
\* does not resolve yet, and token, user and local storage stay
C19_DetailNotRetriedUnless5xx ==
    [][ \A c \in calls : \A resp \in AuthResponses :
          (/\ c.kind \in {"login", "register"}
           /\ HasDetail(resp)
           /\ FetchSettles(c, resp)) =>
              IF resp.status >= 500 /\ c.i < c.retries - 1
              THEN /\ \E d \in calls' : d.id = c.id /\ d.phase = "backoff" /\ d.i = c.i
                   /\ authResult' = <<>>
                   /\ token' = token
                   /\ user' = user
                   /\ localStorage' = localStorage
              ELSE ResolvesToDetail(c, resp) ]_vars

\* a login was answered 401 on its first attempt and has resolved to a
\* failure with the message of the answer, which the form shows; nobody is
\* signed in
C19_LoginRefusedWithDetail ==
    /\ returned /= <<>>
    /\ returned[1].kind = "login"
    /\ received /= <<>>
    /\ received[1].status = 401
    /\ authResult = <<[success |-> FALSE, error |-> "Incorrect email or password"]>>
    /\ formError = <<"Incorrect email or password">>
    /\ token = NoToken
    /\ user = NoUser
    /\ localStorage = NoToken
    /\ calls = {}

(***************************************************************************)
(* Properties of the deletion of a space.                                  *)
(***************************************************************************)
\* the state a handler can change, the records of the last step left out
ProgramState ==
    <<searchQuery, searchResults, spaces, isSearching, notifications,
      showSpaceSelector, spaceSearchQuery, highlightedSpaceIndex,
      selectedSpaceInQuery, pending, searchSeq, spacesPending,
      user, token, loading, localStorage, calls,
      selectedSpaces, expandedSources, formData, isLogin, formError, formLoading,
      unmountedCalls, deletes, statsPending, stats, spaceModal, modalForm, modalErrors, saves>>

\* C20: a step issues a DELETE request for a space only if in that step the
\* confirmation for that space was asked and accepted, and a step in which
\* the confirmation was declined issues no request and changes no state
C20_DeleteOnlyAfterConfirmation ==
    [][ /\ \A i \in 1..Len(sent') :
              sent'[i].method = "DELETE" =>
                  dialog' = <<[spaceId |-> sent'[i].spaceId, answer |-> TRUE]>>
        /\ (dialog' /= <<>> /\ ~dialog'[1].answer) =>
              (sent' = <<>> /\ ProgramState' = ProgramState) ]_vars

\* the deletion of the space 1 was confirmed and its request is in flight,
\* and the deletion of the space 2 has just been declined
C20_SecondDeletionDeclined ==
    /\ dialog = <<[spaceId |-> 2, answer |-> FALSE]>>
    /\ sent = <<>>
    /\ \E d \in deletes : d.space.id = 1
    /\ \A d \in deletes : d.space.id /= 2
    /\ Len(spaces) = 3

(***************************************************************************)
(* Properties of the space modal.                                          *)
(***************************************************************************)
\* C21: every create-space or update-space request carries a name that is
\* not blank and has 1 to 100 characters
C21_SavedNameHas1To100Chars ==
    [][ \A i \in 1..Len(sent') :
          sent'[i].method \in {"POST", "PUT"} =>
              /\ Trim(sent'[i].body.name) /= <<>>
              /\ Len(sent'[i].body.name) >= 1
              /\ Len(sent'[i].body.name) <= 100 ]_vars

\* a create-space request with a name of 101 characters has just been sent
C21_LongNameSent ==
    /\ Len(sent) = 1
    /\ sent[1].method = "POST"
    /\ Len(sent[1].body.name) = 101
    /\ saves /= {}

\* C30: when the modal is opened in create mode its form shows an empty name
\* and an empty description
C30_CreateFormStartsEmpty ==
    [][ OpenCreateModal => modalForm' = EmptyModalForm ]_vars

\* the modal is open in create mode and its name field holds the name of the
\* third space, a name that the typing of this model cannot produce
C30_CreateFormShowsEditedSpace ==
    /\ spaceModal.isOpen
    /\ spaceModal.mode = "create"
    /\ modalForm.name = AllSpaces[3].name

(***************************************************************************)
(* Properties of the notifications.                                        *)
(***************************************************************************)
\* the run of a timer takes from the list only notifications whose own
\* NotificationDelay has passed: no other pending timer with the id of the
\* one that runs is still before its time
ExpiryRemovesOnlyExpired ==
    \A i \in 1..Len(timers) :
        (timers[i].due <= Clock /\ TimerFires(i)) =>
            \A j \in 1..Len(timers) :
                (j /= i /\ timers[j].id = timers[i].id) => timers[j].due <= Clock

\* every notification is removed in the end
AllNotificationsExpire == <>[](notifications = <<>>)

\* C22: every notification is eventually removed, and the expiry of one
\* notification removes no notification that is still within its own delay
C22_NotificationsExpireOnTheirOwn ==
    AllNotificationsExpire /\ [][ExpiryRemovesOnlyExpired]_vars

\* the list is empty while a timer is pending that is not yet due: its
\* notification was removed before its time
C22_RemovedBeforeItsTime ==
    /\ notifications = <<>>
    /\ \E j \in 1..Len(timers) : timers[j].due > Clock

(***************************************************************************)
(* Properties of the session.                                              *)
(***************************************************************************)
\* C23: when the login or register call of a submission has finished, with
\* whatever result, the loading flag of the form that made it is false, so
\* its submit control is enabled again (a form that has been unmounted in the
\* meantime has no flag)
C23_SubmitReenabledAfterResult ==
    [][ \A c \in calls : \A resp \in AuthResponses :
          (/\ c.kind \in {"login", "register"}
           /\ c.id \notin unmountedCalls
           /\ FetchSettles(c, resp)
           /\ authResult' /= <<>>) => ~formLoading' ]_vars

\* a login has failed after its last attempt was not answered; the form is
\* shown with the message, and its submit control is enabled
C23_FormEnabledAfterNetworkError ==
    /\ returned /= <<>>
    /\ returned[1].kind = "login"
    /\ returned[1].outcome = "throw"
    /\ authResult /= <<>>
    /\ ~authResult[1].success
    /\ ShowsAuthForm
    /\ formError /= <<>>
    /\ ~formLoading

\* the sum of the delays in waits, in ms
RECURSIVE TotalWait(_)
TotalWait(waits) ==
    IF waits = <<>> THEN 0 ELSE Head(waits) + TotalWait(Tail(waits))

\* every fetch of the finished call r failed: a 5xx answer or no answer
EveryAttemptFailed(r) ==
    /\ Len(r.hist) = r.retries
    /\ \A k \in 1..Len(r.hist) : r.hist[k] = NetworkError \/ r.hist[k] >= 500

\* C24: a call with the default 3 attempts waits at most 6 seconds in all,
\* and waits 6 seconds when every attempt fails
C24_WorstCaseBackoffIs6s ==
    /\ \A c \in calls : c.retries = DefaultRetries => TotalWait(c.waits) <= 6000
    /\ \A n \in 1..Len(returned) :
          LET r == returned[n]
          IN  (r.kind = "direct" /\ r.retries = DefaultRetries) =>
                  /\ TotalWait(r.waits) <= 6000
                  /\ EveryAttemptFailed(r) => TotalWait(r.waits) = 6000

\* C24, amended: a call with the default 3 attempts waits at most 1 + 2 = 3
\* seconds in all, and waits 3 seconds exactly when it makes all 3 attempts,
\* which it does when every attempt fails
C24_WorstCaseBackoffIs3s ==
    /\ \A c \in calls : c.retries = DefaultRetries => TotalWait(c.waits) <= 3000
    /\ \A n \in 1..Len(returned) :
          LET r == returned[n]
          IN  (r.kind = "direct" /\ r.retries = DefaultRetries) =>
                  /\ TotalWait(r.waits) <= 3000
                  /\ TotalWait(r.waits) = 3000 <=> Len(r.hist) = 3
                  /\ EveryAttemptFailed(r) => TotalWait(r.waits) = 3000

\* a call with 3 attempts is over after a 500, an unanswered fetch and a
\* 500, having waited 1000 ms and 2000 ms
C24_ThreeFailuresWaited3s ==
    /\ returned /= <<>>
    /\ returned[1].kind = "direct"
    /\ returned[1].retries = DefaultRetries
    /\ returned[1].hist = <<500, NetworkError, 500>>
    /\ returned[1].outcome = "return"
    /\ TotalWait(returned[1].waits) = 3000

\* C25: user is set only while token is set
C25_UserOnlyWithToken == user /= NoUser => token /= NoToken

\* a checkAuth has just been answered 401: the token is cleared from the
\* state and from local storage, user is still set, and the authenticated
\* application is displayed
C25_UserKeptWithoutToken ==
    /\ returned /= <<>>
    /\ returned[1].kind = "checkAuth"
    /\ received /= <<>>
    /\ received[1].status = 401
    /\ user /= NoUser
    /\ token = NoToken
    /\ localStorage = NoToken
    /\ ~loading

\* nobody is signed in: no user, no token, no token in local storage
Anonymous == user = NoUser /\ token = NoToken /\ localStorage = NoToken

\* C26: while nobody is signed in after a logout, the completion of a request
\* that was in flight at the logout (a checkAuth, or a login or register of a
\* form that was unmounted before the logout) leaves the session anonymous
C26_LateCompletionStaysAnonymous ==
    [][ \A c \in calls : \A resp \in AuthResponses :
          (/\ Anonymous
           /\ c.kind = "checkAuth" \/ c.id \in unmountedCalls
           /\ FetchSettles(c, resp)) => Anonymous' ]_vars

\* a checkAuth was answered 200 while nobody was signed in: user is set
\* without a token, and no login or register has been started or is in flight
C26_UserSetAfterLogout ==
    /\ returned /= <<>>
    /\ returned[1].kind = "checkAuth"
    /\ received /= <<>>
    /\ received[1].status = 200
    /\ user /= NoUser
    /\ token = NoToken
    /\ localStorage = NoToken
    /\ calls = {}

(***************************************************************************)
(* Invariants of the search tab.                                           *)
(***************************************************************************)
\* C27: isSearching is true whenever a search request is outstanding
C27_SearchingWhileRequestOutstanding == pending /= {} => isSearching

\* two searches overlapped and one of them has been answered: the other is
\* still outstanding, and isSearching is false
C27_IdleWhileRequestOutstanding ==
    /\ searchSeq = 2
    /\ Cardinality(pending) = 1
    /\ received /= <<>>
    /\ ~isSearching

\* the buffer holds the token `@<name>` of space
HoldsMention(text, space) == Includes(text, Mention(space))

\* C28: a scope is active exactly while the buffer holds the token of that
\* space (with no scope active the buffer holds the token of no space), a
\* search carries space_ids only while the buffer holds the token, and the q
\* of a search holds no `@`
C28_ScopeIffMentionInBuffer ==
    /\ selectedSpaceInQuery /= NoSpace => HoldsMention(searchQuery, selectedSpaceInQuery)
    /\ selectedSpaceInQuery = NoSpace =>
          \A k \in 1..Len(spaces) : ~HoldsMention(searchQuery, spaces[k])
    /\ \A i \in 1..Len(sent) :
          /\ sent[i].space_ids /= <<>> =>
                \E k \in 1..Len(spaces) :
                    /\ spaces[k].id = sent[i].space_ids[1]
                    /\ HoldsMention(searchQuery, spaces[k])
          /\ ~Includes(sent[i].q, <<"@">>)

\* "@M" was typed with the space M loaded, the list was closed without a
\* commit, and a search has just been sent with q = "@M" and no space_ids
C28_TypedMentionSentUnscoped ==
    /\ Len(spaces) = 3
    /\ searchQuery = <<"@", "M">>
    /\ selectedSpaceInQuery = NoSpace
    /\ ~showSpaceSelector
    /\ Len(sent) = 1
    /\ sent[1].q = <<"@", "M">>
    /\ sent[1].space_ids = <<>>

\* C29: while the suggestion list is open and shows at least one space, the
\* highlighted index is one of 0..(number of spaces shown - 1)
C29_HighlightWithinList ==
    (showSpaceSelector /\ Len(FilteredSpaces) > 0) =>
        highlightedSpaceIndex \in 0..(Len(FilteredSpaces) - 1)

\* the list is open and shows three spaces, and the highlighted index is -1:
\* no suggestion is highlighted
C29_NothingHighlighted ==
    /\ showSpaceSelector
    /\ Len(FilteredSpaces) = 3
    /\ highlightedSpaceIndex = -1

====
